---- MODULE Spec2Model ----
(***************************************************************************)
(* EditorWatch analysis engine (src/analysis/metrics.py).                  *)
(*                                                                         *)
(* Number representation.  Every value the code rounds to one decimal      *)
(* (round(x, 1)) is carried as an integer number of tenths: the score 3.0  *)
(* is 30, an average_cpm of 150.1 is 1501, 0.1 minutes is 1.  Timestamps   *)
(* and character counts are plain integers (milliseconds, characters).     *)
(* Comparisons the code makes on quotients (gap / 1000 / 60 > 5,           *)
(* paste_ratio > 0.5) are made on the cross-multiplied integers.           *)
(*                                                                         *)
(* Rounding.  The code computes in binary floating point and rounds the    *)
(* float.  Away from an exact decimal tie the result is the rounding of    *)
(* the exact quotient.  At an exact tie (0.05 minutes to one decimal) the  *)
(* side round() or a format takes is decided by the representation error   *)
(* of the float (round(3000/1000/60, 1) is 0.1, round(9000/1000/60, 1) is  *)
(* 0.1), which the integers of this model do not carry: both neighbours    *)
(* are admitted there.  Every operator whose result goes through such a    *)
(* rounding therefore denotes the SET of values the call can return, a     *)
(* singleton except at a tie.                                              *)
(***************************************************************************)
EXTENDS Integers, Sequences, FiniteSets, TLC

VARIABLES
    event_data,     \* the submitted event log: [format, base_time, events]
    metrics,        \* the metrics dict built by calculate_all_metrics
    work_patterns,  \* the dict returned by analyze_work_patterns
    overall_score,  \* metrics['overall_score'], in tenths
    flags,          \* the list returned by generate_detailed_flags
    pc,             \* "recording", then "analysed" or "failed"; "bursts",
                    \* "sessions", "velocity", "aggregating", "scored",
                    \* "calling", "rendered" where one stage runs alone;
                    \* "evaluating" while the components run one by one;
                    \* "serving" while the server and its workers run
    database,       \* the submissions and analysis_results tables
    task_queue,     \* the queued analyze_submission calls, oldest first
    jobs            \* the analyze_submission calls started so far, with
                    \* their local variables

\* the state of the analysis engine and the state of the server around it
engine == <<event_data, metrics, work_patterns, overall_score, flags, pc>>
storage == <<database, task_queue, jobs>>

vars == <<event_data, metrics, work_patterns, overall_score, flags, pc,
          database, task_queue, jobs>>

\* no server: the engine is called directly on a log
NoStorage ==
    /\ database = [submission |-> 0, results |-> {}, next_id |-> 1]
    /\ task_queue = <<>>
    /\ jobs = <<>>

----------------------------------------------------------------------------
(* Program constants *)

LargePaste == 100
BurstGapMs == 2000
WindowSizeMs == 30000
SessionGapMs == 300000
BreakGapMs == 600000
QuickFileMs == 120000
MinuteTenthMs == 6000

----------------------------------------------------------------------------
(* Arithmetic helpers *)

Min(a, b) == IF a <= b THEN a ELSE b
Max(a, b) == IF a >= b THEN a ELSE b

\* the integer nearest to n / d for n >= 0, d > 0 (the even one at a tie)
Round(n, d) ==
    LET q == n \div d
        r == n % d
    IN  IF 2 * r < d THEN q
        ELSE IF 2 * r > d THEN q + 1
        ELSE IF q % 2 = 0 THEN q ELSE q + 1

\* round(n / d) of the float: both neighbours at an exact tie
RoundEither(n, d) ==
    IF 2 * (n % d) = d THEN {n \div d, n \div d + 1} ELSE {Round(n, d)}

RECURSIVE SumSeq(_)
SumSeq(s) == IF s = <<>> THEN 0 ELSE Head(s) + SumSeq(Tail(s))

RECURSIVE MaxSeq(_)
MaxSeq(s) == IF s = <<>> THEN 0 ELSE Max(Head(s), MaxSeq(Tail(s)))

RECURSIVE Gcd(_, _)
Gcd(a, b) == IF b = 0 THEN a ELSE Gcd(b, a % b)

RECURSIVE GcdSeq(_)
GcdSeq(s) == IF s = <<>> THEN 0 ELSE Gcd(Head(s), GcdSeq(Tail(s)))

Last(s) == s[Len(s)]

----------------------------------------------------------------------------
(* Event access.  An event is [t, k, f, c]: for a compact record t is the  *)
(* delta and k the kind code; for a legacy dict t is the absolute          *)
(* timestamp and k the type.  f is the file path as its list of segments.  *)
(* An event may lack fields: a compact array of arity n has the first n    *)
(* of t, k, f, c; a legacy dict has any subset of the keys.                *)

\* event_data is [format, base_time, events]: format "compact" is the wire
\* dict {base_time, events: [[delta, kind, file, chars], ...]}, format
\* "legacy" is the direct list of event dicts.
\* Returns <<events_list, base_time, is_compact>>.
_normalize_events(ed) ==
    IF ed.format = "compact"
    THEN (IF ed.events # <<>>
          THEN <<ed.events, ed.base_time, TRUE>>
          ELSE <<ed.events, ed.base_time, FALSE>>)
    ELSE <<ed.events, 0, FALSE>>

\* event[0] of a compact array (IndexError on an empty one is modelled by
\* Raises below); event.get('timestamp', 0) of a legacy dict
_get_timestamp(e, base_time, is_compact) ==
    IF is_compact THEN base_time + e.t
    ELSE IF "t" \in DOMAIN e THEN e.t ELSE 0

\* _get_type without the 'insert' default of type_map.get: an unknown kind
\* code stays unknown
_get_type_strict(e, is_compact) ==
    IF is_compact
    THEN (IF e.k = "d" THEN "delete" ELSE IF e.k = "s" THEN "save"
          ELSE IF e.k = "i" THEN "insert" ELSE "unknown")
    ELSE IF "k" \in DOMAIN e THEN e.k ELSE "insert"

\* type_map.get(event[1], 'insert'); event.get('type', 'insert')
_get_type(e, is_compact) ==
    IF is_compact
    THEN (IF e.k = "d" THEN "delete" ELSE IF e.k = "s" THEN "save" ELSE "insert")
    ELSE IF "k" \in DOMAIN e THEN e.k ELSE "insert"

\* event[3] if len(event) > 3 else 0; event.get('char_count', 0)
_get_char_count(e, is_compact) == IF "c" \in DOMAIN e THEN e.c ELSE 0

\* the analysis raises IndexError: some event of a compact record has no
\* element 0 or 1 (every extractor reads the type of every event)
Raises(ed) ==
    /\ _normalize_events(ed)[3]
    /\ \E i \in 1..Len(ed.events) : ~({"t", "k"} \subseteq DOMAIN ed.events[i])

\* the helpers as every extractor applies them to its normalized input
Events(ed) == _normalize_events(ed)[1]
Ts(ed, e) == _get_timestamp(e, _normalize_events(ed)[2], _normalize_events(ed)[3])
Ty(ed, e) == _get_type(e, _normalize_events(ed)[3])
Cc(ed, e) == _get_char_count(e, _normalize_events(ed)[3])

InsertEvents(ed) == SelectSeq(Events(ed), LAMBDA e: Ty(ed, e) = "insert")
DeleteEvents(ed) == SelectSeq(Events(ed), LAMBDA e: Ty(ed, e) = "delete")

RECURSIVE SumChars(_, _)
SumChars(ed, s) == IF s = <<>> THEN 0 ELSE Cc(ed, Head(s)) + SumChars(ed, Tail(s))

LargePastes(ed, s) == SelectSeq(s, LAMBDA e: Cc(ed, e) > LargePaste)

----------------------------------------------------------------------------
(* Feature extractors *)

\* incremental_score with a paste counted as large from 100 characters on
incremental_score_ge(ed) ==
    LET ins == InsertEvents(ed)
        total_chars == SumChars(ed, ins)
        large_paste_chars ==
            SumChars(ed, SelectSeq(ins, LAMBDA e: Cc(ed, e) >= LargePaste))
    IN  IF Events(ed) = <<>> THEN {0}
        ELSE IF ins = <<>> THEN {0}
        ELSE IF total_chars = 0 THEN {0}
        ELSE RoundEither(100 * (total_chars - large_paste_chars), total_chars)

\* incremental_score: share of inserted characters that did not come from
\* large pastes, 0..100 tenths
incremental_score(ed) ==
    LET ins == InsertEvents(ed)
        total_chars == SumChars(ed, ins)
        large_paste_chars == SumChars(ed, LargePastes(ed, ins))
    IN  IF Events(ed) = <<>> THEN {0}
        ELSE IF ins = <<>> THEN {0}
        ELSE IF total_chars = 0 THEN {0}
        ELSE RoundEither(100 * (total_chars - large_paste_chars), total_chars)

\* the strictly positive gaps between consecutive events of s
RECURSIVE Intervals(_, _)
Intervals(ed, s) ==
    IF Len(s) < 2 THEN <<>>
    ELSE LET time_diff == Ts(ed, s[2]) - Ts(ed, s[1])
         IN  (IF time_diff > 0 THEN <<time_diff>> ELSE <<>>) \o Intervals(ed, Tail(s))

RECURSIVE SumSquares(_)
SumSquares(s) == IF s = <<>> THEN 0 ELSE Head(s) * Head(s) + SumSquares(Tail(s))

\* remainder left after `digits` decimal steps of the long division num / den
RECURSIVE ScaledRemainder(_, _, _)
ScaledRemainder(num, den, digits) ==
    IF digits = 0 THEN num % den
    ELSE (10 * ScaledRemainder(num, den, digits - 1)) % den

\* floor(num * 10^digits / den) by long division, 0 <= num, 0 < den
RECURSIVE ScaledQuotient(_, _, _)
ScaledQuotient(num, den, digits) ==
    IF digits = 0 THEN num \div den
    ELSE LET q == ScaledQuotient(num, den, digits - 1)
             \* remainder of the previous step, carried one decimal further
             r == ScaledRemainder(num, den, digits - 1)
         IN  10 * q + ((10 * r) \div den)

\* round(min(cv / 2.0, 1.0) * 10, 1) in tenths, where cv = sqrt(var) / mean
\* of the intervals.  With n intervals of sum S and sum of squares Q,
\* cv^2 = (n*Q - S^2) / S^2; the intervals are first divided by their gcd,
\* which leaves cv unchanged.
CvScore(intervals) ==
    LET g == GcdSeq(intervals)
        xs == [i \in 1..Len(intervals) |-> intervals[i] \div g]
        n == Len(xs)
        S == SumSeq(xs)
        D == n * SumSquares(xs) - S * S
        \* F = floor(10000 * cv^2); score is the k with k - 1/2 <= 50*cv < k + 1/2
        F == ScaledQuotient(D, S * S, 4)
        exact == ScaledRemainder(D, S * S, 4) = 0
        ks == {k \in 1..100 : (2 * k - 1) * (2 * k - 1) <= F}
        k == IF ks = {} THEN 0 ELSE CHOOSE x \in ks : \A y \in ks : y <= x
    IN  IF D = 0 THEN {0}
        ELSE IF D >= 4 * S * S THEN {100}
        ELSE IF k > 0 /\ exact /\ (2 * k - 1) * (2 * k - 1) = F THEN {k - 1, k}
        ELSE {k}

\* typing_variance with the scale turned around (regular typing scores high)
typing_variance_inverted(ed) ==
    LET ins == SelectSeq(Events(ed),
                         LAMBDA e: Ty(ed, e) = "insert" /\ Cc(ed, e) > 0)
        intervals == Intervals(ed, ins)
    IN  IF Len(Events(ed)) < 2 THEN {0}
        ELSE IF Len(ins) < 2 THEN {0}
        ELSE IF Len(intervals) < 2 THEN {0}
        ELSE {100 - x : x \in CvScore(intervals)}

typing_variance(ed) ==
    LET ins == SelectSeq(Events(ed),
                         LAMBDA e: Ty(ed, e) = "insert" /\ Cc(ed, e) > 0)
        intervals == Intervals(ed, ins)
    IN  IF Len(Events(ed)) < 2 THEN {0}
        ELSE IF Len(ins) < 2 THEN {0}
        ELSE IF Len(intervals) < 2 THEN {0}
        ELSE CvScore(intervals)

\* error_correction_ratio without the min(..., 1.0) cap
error_correction_ratio_uncapped(ed) ==
    LET insert_count == Len(InsertEvents(ed))
        delete_count == Len(DeleteEvents(ed))
    IN  IF Events(ed) = <<>> THEN {0}
        ELSE IF insert_count = 0 THEN {0}
        ELSE RoundEither(1000 * delete_count, 3 * insert_count)

\* error_correction_ratio answering 10.0 when there is no insert to correct
error_correction_ratio_full(ed) ==
    LET insert_count == Len(InsertEvents(ed))
        delete_count == Len(DeleteEvents(ed))
    IN  IF Events(ed) = <<>> THEN {0}
        ELSE IF insert_count = 0 THEN {100}
        ELSE {Min(x, 100) : x \in RoundEither(1000 * delete_count, 3 * insert_count)}

\* error_correction_ratio: min((deletes / inserts) / 0.3, 1.0) * 10, in tenths
error_correction_ratio(ed) ==
    LET insert_count == Len(InsertEvents(ed))
        delete_count == Len(DeleteEvents(ed))
    IN  IF Events(ed) = <<>> THEN {0}
        ELSE IF insert_count = 0 THEN {0}
        ELSE {Min(x, 100) : x \in RoundEither(1000 * delete_count, 3 * insert_count)}

\* the burst loop counting the gaps over 2000 ms instead of those under it
RECURSIVE BurstLoop_gt(_, _, _)
BurstLoop_gt(ed, i, last_time) ==
    IF i > Len(Events(ed)) THEN 0
    ELSE LET e == Events(ed)[i]
             timestamp == Ts(ed, e)
         IN  IF Ty(ed, e) = "insert" /\ Cc(ed, e) > LargePaste
             THEN (IF timestamp - last_time > BurstGapMs THEN 1 ELSE 0)
                  + BurstLoop_gt(ed, i + 1, timestamp)
             ELSE BurstLoop_gt(ed, i + 1, last_time)

\* the loop of paste_burst_detection over the events from index i on;
\* returns the bursts counted from there
RECURSIVE BurstLoop(_, _, _)
BurstLoop(ed, i, last_time) ==
    IF i > Len(Events(ed)) THEN 0
    ELSE LET e == Events(ed)[i]
             timestamp == Ts(ed, e)
         IN  IF Ty(ed, e) = "insert" /\ Cc(ed, e) > LargePaste
             THEN (IF timestamp - last_time < BurstGapMs THEN 1 ELSE 0)
                  + BurstLoop(ed, i + 1, timestamp)
             ELSE BurstLoop(ed, i + 1, last_time)

paste_burst_detection(ed) ==
    IF Events(ed) = <<>> THEN 0 ELSE BurstLoop(ed, 1, 0)

\* the session loop opening a session from a gap of exactly 5 minutes on
RECURSIVE SessionLoop_ge(_, _, _, _)
SessionLoop_ge(ed, i, last_time, current_session) ==
    IF i > Len(Events(ed)) THEN (IF current_session > 0 THEN 1 ELSE 0)
    ELSE LET timestamp == Ts(ed, Events(ed)[i])
         IN  IF timestamp - last_time >= SessionGapMs /\ current_session > 0
             THEN 1 + SessionLoop_ge(ed, i + 1, timestamp, 1)
             ELSE SessionLoop_ge(ed, i + 1, timestamp, current_session + 1)

\* the session loop splitting only at the gaps over 10 minutes, the break
\* threshold of analyze_work_patterns
RECURSIVE SessionLoop_breaks(_, _, _, _)
SessionLoop_breaks(ed, i, last_time, current_session) ==
    IF i > Len(Events(ed)) THEN (IF current_session > 0 THEN 1 ELSE 0)
    ELSE LET timestamp == Ts(ed, Events(ed)[i])
         IN  IF timestamp - last_time > BreakGapMs /\ current_session > 0
             THEN 1 + SessionLoop_breaks(ed, i + 1, timestamp, 1)
             ELSE SessionLoop_breaks(ed, i + 1, timestamp, current_session + 1)

\* the loop of session_consistency_score from index i on: the number of
\* sessions closed from there, given the size of the current one
RECURSIVE SessionLoop(_, _, _, _)
SessionLoop(ed, i, last_time, current_session) ==
    IF i > Len(Events(ed)) THEN (IF current_session > 0 THEN 1 ELSE 0)
    ELSE LET timestamp == Ts(ed, Events(ed)[i])
         IN  IF timestamp - last_time > SessionGapMs /\ current_session > 0
             THEN 1 + SessionLoop(ed, i + 1, timestamp, 1)
             ELSE SessionLoop(ed, i + 1, timestamp, current_session + 1)

num_sessions(ed) == SessionLoop(ed, 1, Ts(ed, Events(ed)[1]), 0)

session_consistency_score(ed) ==
    IF Events(ed) = <<>> THEN 0
    ELSE LET n == num_sessions(ed)
         IN  IF n = 1 THEN 0
             ELSE IF n = 2 THEN 30
             ELSE IF n = 3 THEN 60
             ELSE IF n = 4 THEN 80
             ELSE 100

\* the window total taken as the number of inserts in the window
SumCharField_count(s) == Len(s)

RECURSIVE SumCharField(_)
SumCharField(s) == IF s = <<>> THEN 0 ELSE Head(s).chars + SumCharField(Tail(s))

\* the while loop of code_velocity_analysis from current_time on: one record
\* [offset, chars] per 30-second window that holds at least one insert;
\* `stamped` is the list of the insert events as [ts, chars]
RECURSIVE WindowLoop(_, _, _, _)
WindowLoop(stamped, start_time, end_time, current_time) ==
    IF ~(current_time < end_time) THEN <<>>
    ELSE LET window_end == current_time + WindowSizeMs
             window_events ==
                 SelectSeq(stamped, LAMBDA e: current_time <= e.ts /\ e.ts < window_end)
             here == IF window_events # <<>>
                     THEN <<[offset |-> current_time - start_time,
                             chars |-> SumCharField(window_events)]>>
                     ELSE <<>>
         IN  here \o WindowLoop(stamped, start_time, end_time,
                                current_time + WindowSizeMs)

\* velocity_score with the last segment open at 200: 0.0 at 200 chars/min
velocity_score_open(avg_cpm) ==
    IF avg_cpm <= 800 THEN {100}
    ELSE IF avg_cpm <= 1500 THEN RoundEither(2200 - avg_cpm, 14)
    ELSE IF avg_cpm < 2000 THEN RoundEither(4250 - 2 * avg_cpm, 25)
    ELSE {0}

\* score of an average_cpm given in tenths, in tenths
velocity_score(avg_cpm) ==
    IF avg_cpm <= 800 THEN {100}
    ELSE IF avg_cpm <= 1500 THEN RoundEither(2200 - avg_cpm, 14)
    ELSE IF avg_cpm <= 2000 THEN RoundEither(4250 - 2 * avg_cpm, 25)
    ELSE {0}

\* the record for a log without windows, scored as a log of 0 cpm
NoVelocity_neutral ==
    [average_cpm |-> 0, max_cpm |-> 0, score |-> 100, suspicious_bursts |-> <<>>]

NoVelocity == [average_cpm |-> 0, max_cpm |-> 0, score |-> 0, suspicious_bursts |-> <<>>]

\* the record built from the non-empty windows: average_cpm, max_cpm and
\* score in tenths; a suspicious burst keeps its window offset in ms (the
\* code divides it into minutes), its cpm and chars
velocity_record(windows) ==
    LET velocities == [i \in 1..Len(windows) |-> windows[i].chars * 2]
        avg_cpms == IF velocities # <<>>
                    THEN RoundEither(10 * SumSeq(velocities), Len(velocities)) ELSE {0}
        max_cpm == IF velocities # <<>> THEN 10 * MaxSeq(velocities) ELSE 0
        hot == SelectSeq(windows, LAMBDA w: w.chars * 2 > 200)
    IN  UNION {{[average_cpm |-> avg_cpm,
                 max_cpm |-> max_cpm,
                 score |-> score,
                 suspicious_bursts |->
                     [i \in 1..Len(hot) |-> [time_offset |-> hot[i].offset,
                                             cpm |-> hot[i].chars * 2,
                                             chars |-> hot[i].chars]]]
                : score \in velocity_score(avg_cpm)}
               : avg_cpm \in avg_cpms}

\* the non-empty windows the while loop goes through, for a log that gets
\* past the two early returns
velocity_windows(ed) ==
    LET events == Events(ed)
        insert_events == InsertEvents(ed)
    IN  WindowLoop([i \in 1..Len(insert_events) |->
                       [ts |-> Ts(ed, insert_events[i]),
                        chars |-> Cc(ed, insert_events[i])]],
                   Ts(ed, events[1]), Ts(ed, Last(events)), Ts(ed, events[1]))

code_velocity_analysis(ed) ==
    LET events == Events(ed)
        insert_events == InsertEvents(ed)
    IN  IF Len(events) < 2 THEN {NoVelocity}
        ELSE IF insert_events = <<>> THEN {NoVelocity}
        ELSE velocity_record(velocity_windows(ed))

----------------------------------------------------------------------------
(* File risk analyzer *)

\* round(ms / 1000 / 60, 1) in tenths of a minute, for either sign
MinutesTenths(ms) ==
    IF ms >= 0 THEN RoundEither(ms, MinuteTenthMs)
    ELSE {0 - x : x \in RoundEither(0 - ms, MinuteTenthMs)}

\* the key an event is grouped under
filename_of(ed, e) ==
    IF _normalize_events(ed)[3]
    THEN (IF "f" \in DOMAIN e THEN e.f ELSE <<"unknown">>)
    ELSE (IF "f" \in DOMAIN e THEN <<Last(e.f)>> ELSE <<"unknown">>)

\* the keys of the files dict, in insertion (first appearance) order
RECURSIVE FileOrder(_, _, _)
FileOrder(ed, i, seen) ==
    IF i > Len(Events(ed)) THEN seen
    ELSE LET f == filename_of(ed, Events(ed)[i])
         IN  IF \E j \in 1..Len(seen) : seen[j] = f
             THEN FileOrder(ed, i + 1, seen)
             ELSE FileOrder(ed, i + 1, Append(seen, f))

\* the escalation going straight to high
Escalated_twice(risk) == "high"

\* the escalation turned around: one level down
Escalated_down(risk) ==
    IF risk = "high" THEN "medium" ELSE "low"

\* if risk == 'medium': risk = 'high' / elif risk == 'low': risk = 'medium'
Escalated(risk) ==
    IF risk = "medium" THEN "high"
    ELSE IF risk = "low" THEN "medium" ELSE risk

\* the risk entry of one file that has inserts (the set of admitted entries)
file_risk(ed, filename) ==
    LET mine == SelectSeq(Events(ed), LAMBDA e: filename_of(ed, e) = filename)
        inserts == SelectSeq(mine, LAMBDA e: Ty(ed, e) = "insert")
        deletes == SelectSeq(mine, LAMBDA e: Ty(ed, e) = "delete")
        total_chars == SumChars(ed, inserts)
        large_pastes == LargePastes(ed, inserts)
        P == Len(large_pastes)
        I == Len(inserts)
        D == Len(deletes)
        risk1 == IF 2 * P > I THEN "high" ELSE IF 10 * P > 3 * I THEN "medium" ELSE "low"
        issues1(paste_pct) ==
            IF 2 * P > I
            THEN <<[issue |-> "large pastes pct", n |-> P, pct |-> paste_pct]>>
            ELSE IF 10 * P > 3 * I
            THEN <<[issue |-> "large pastes", n |-> P]>>
            ELSE <<>>
        few_edits == 20 * D < I /\ I > 10
        risk2 == IF few_edits THEN Escalated(risk1) ELSE risk1
        issues2(paste_pct, edit_pct) ==
            IF few_edits
            THEN Append(issues1(paste_pct), [issue |-> "very few edits", pct |-> edit_pct])
            ELSE issues1(paste_pct)
        duration == Ts(ed, Last(inserts)) - Ts(ed, inserts[1])
        quick == duration < QuickFileMs /\ total_chars > 200
        risk3 == IF quick THEN "high" ELSE risk2
        issues3(paste_pct, edit_pct, minutes) ==
            IF quick
            THEN Append(issues2(paste_pct, edit_pct),
                        [issue |-> "entire file in", minutes |-> minutes])
            ELSE issues2(paste_pct, edit_pct)
    IN  {[file |-> filename,
          risk |-> risk3,
          issues |-> issues3(paste_pct, edit_pct, minutes),
          total_chars |-> total_chars,
          paste_count |-> P,
          edit_ratio |-> edit_ratio,
          insert_count |-> I,
          delete_count |-> D]
         : paste_pct \in (IF 2 * P > I THEN RoundEither(100 * P, I) ELSE {0}),
           edit_pct \in (IF few_edits THEN RoundEither(1000 * D, I) ELSE {0}),
           minutes \in (IF quick THEN MinutesTenths(duration) ELSE {0}),
           edit_ratio \in RoundEither(1000 * D, I)}

\* the lists holding one admitted entry for each file of `files`, in order
RECURSIVE EntryLists(_, _)
EntryLists(ed, files) ==
    IF files = <<>> THEN {<<>>}
    ELSE {<<entry>> \o rest : entry \in file_risk(ed, Head(files)),
                              rest \in EntryLists(ed, Tail(files))}

\* file_level_analysis reporting the first file with inserts only
file_level_analysis_first(ed) ==
    LET order == FileOrder(ed, 1, <<>>)
        with_inserts ==
            SelectSeq(order,
                      LAMBDA f: \E i \in 1..Len(Events(ed)) :
                                    /\ filename_of(ed, Events(ed)[i]) = f
                                    /\ Ty(ed, Events(ed)[i]) = "insert")
    IN  EntryLists(ed, SubSeq(with_inserts, 1, Min(1, Len(with_inserts))))

\* file_risks as the list of its items in dict order: entries of the files
\* with at least one insert, each carrying its key in field `file`
file_level_analysis(ed) ==
    LET order == FileOrder(ed, 1, <<>>)
        with_inserts ==
            SelectSeq(order,
                      LAMBDA f: \E i \in 1..Len(Events(ed)) :
                                    /\ filename_of(ed, Events(ed)[i]) = f
                                    /\ Ty(ed, Events(ed)[i]) = "insert")
    IN  EntryLists(ed, with_inserts)

----------------------------------------------------------------------------
(* Work-pattern summarizer *)

\* the gaps over 10 minutes between consecutive events, in ms
RECURSIVE Breaks(_, _)
Breaks(ed, s) ==
    IF Len(s) < 2 THEN <<>>
    ELSE LET gap == Ts(ed, s[2]) - Ts(ed, s[1])
         IN  (IF gap > BreakGapMs THEN <<gap>> ELSE <<>>) \o Breaks(ed, Tail(s))

\* the empty dict {} is the empty function <<>>
analyze_work_patterns(ed) ==
    LET events == Events(ed)
        insert_events == InsertEvents(ed)
        total_chars_inserted == SumChars(ed, insert_events)
        total_chars_deleted == SumChars(ed, DeleteEvents(ed))
        total_duration == Ts(ed, Last(events)) - Ts(ed, events[1])
        breaks == Breaks(ed, events)
        active_time == total_duration - SumSeq(breaks)
        large_pastes == LargePastes(ed, insert_events)
        large_paste_chars == SumChars(ed, large_pastes)
    IN  IF events = <<>> THEN {<<>>}
        ELSE {[total_duration_minutes |-> total_duration_minutes,
               active_coding_minutes |-> active_coding_minutes,
               breaks_count |-> Len(breaks),
               total_chars_inserted |-> total_chars_inserted,
               total_chars_deleted |-> total_chars_deleted,
               paste_percentage |-> paste_percentage,
               large_pastes_count |-> Len(large_pastes)]
              : total_duration_minutes \in MinutesTenths(total_duration),
                active_coding_minutes \in MinutesTenths(active_time),
                paste_percentage \in
                    (IF total_chars_inserted > 0
                     THEN RoundEither(1000 * large_paste_chars, total_chars_inserted)
                     ELSE {0})}

----------------------------------------------------------------------------
(* Message renderer (src/analysis/messages.py) *)

\* the templates with the placeholders each one needs
MESSAGES ==
    [paste_percentage |->
        [template |-> "{paste_percentage:.0f}% of code pasted in blocks rather than typed gradually",
         placeholders |-> {"paste_percentage"}],
     completed_quickly |->
        [template |-> "Entire submission completed in {active_time:.1f} minutes",
         placeholders |-> {"active_time"}],
     high_typing_speed |->
        [template |-> "{average_cpm:.0f} chars/min typing speed (human: 40-80 chars/min)",
         placeholders |-> {"average_cpm"}],
     file_risks |->
        [template |-> "{file}: {issues}",
         placeholders |-> {"file", "issues"}],
     chunks_appeared |->
        [template |-> "Code appeared in chunks (score: {incremental_score}/10)",
         placeholders |-> {"incremental_score"}],
     robotic_typing |->
        [template |-> "Robotic typing patterns (variance: {typing_variance}/10)",
         placeholders |-> {"typing_variance"}],
     few_corrections |->
        [template |-> "Almost no corrections (score: {error_correction_ratio}/10)",
         placeholders |-> {"error_correction_ratio"}],
     few_sessions |->
        [template |-> "Very few work sessions (score: {session_consistency}/10)",
         placeholders |-> {"session_consistency"}],
     no_suspicious |->
        [template |-> "No suspicious patterns detected - work appears authentic",
         placeholders |-> {}],
     large_pastes_count_ratio |->
        [template |-> "{count} large pastes ({ratio:.0f}%)",
         placeholders |-> {"count", "ratio"}],
     very_few_edits |->
        [template |-> "very few edits ({edit_ratio:.1f}%)",
         placeholders |-> {"edit_ratio"}],
     entire_file_quick |->
        [template |-> "entire file in {duration:.1f} minutes",
         placeholders |-> {"duration"}]]

\* a rendered string is kept as its parts: how it was built, the template
\* or key it shows and the argument values substituted into it
render(key, context) ==
    IF key \notin DOMAIN MESSAGES
    THEN [form |-> "unknown", shows |-> key, values |-> <<>>]
    ELSE IF MESSAGES[key].placeholders \subseteq DOMAIN context
    THEN [form |-> "rendered", shows |-> MESSAGES[key].template,
          values |-> [a \in MESSAGES[key].placeholders |-> context[a]]]
    ELSE [form |-> "fallback", shows |-> MESSAGES[key].template, values |-> context]

----------------------------------------------------------------------------
(* Flag generator *)

\* dict.get(key, default)
Get(d, key, default) == IF key \in DOMAIN d THEN d[key] ELSE default

\* the sort without reverse=True: stable, lowest priority first
RECURSIVE SortByPriority_ascending(_)
SortByPriority_ascending(s) ==
    IF s = <<>> THEN <<>>
    ELSE LET low == CHOOSE p \in {s[i].priority : i \in 1..Len(s)} :
                        \A i \in 1..Len(s) : s[i].priority >= p
         IN  SelectSeq(s, LAMBDA x: x.priority = low)
             \o SortByPriority_ascending(SelectSeq(s, LAMBDA x: x.priority # low))

\* list.sort(key=priority, reverse=True): stable, highest priority first
RECURSIVE SortByPriority(_)
SortByPriority(s) ==
    IF s = <<>> THEN <<>>
    ELSE LET top == CHOOSE p \in {s[i].priority : i \in 1..Len(s)} :
                        \A i \in 1..Len(s) : s[i].priority <= p
         IN  SelectSeq(s, LAMBDA x: x.priority = top)
             \o SortByPriority(SelectSeq(s, LAMBDA x: x.priority # top))

\* the flag returned as collected, priority included
KeepPriority(flag) == flag

\* flag.pop('priority', None)
DropPriority(flag) == [k \in DOMAIN flag \ {"priority"} |-> flag[k]]

Flag(priority, severity, category, message) ==
    [priority |-> priority, severity |-> severity, category |-> category,
     message |-> message]

potential_flags(m, wp) ==
    LET total_chars == Get(wp, "total_chars_inserted", 0)
        paste_percentage == Get(wp, "paste_percentage", 0)
        active_time == Get(wp, "active_coding_minutes", 0)
        velocity == m.velocity
        file_risks == m.file_risks
        high_risk_files == SelectSeq(file_risks, LAMBDA d: d.risk = "high")
    IN  (IF paste_percentage > 700 /\ total_chars > 500
         THEN <<Flag(10, "high", "Code Origin",
                     render("paste_percentage", [paste_percentage |-> paste_percentage]))>>
         ELSE <<>>)
        \o
        (IF active_time < 100 /\ total_chars > 500
         THEN <<Flag(10, "high", "Time Analysis",
                     render("completed_quickly", [active_time |-> active_time]))>>
         ELSE <<>>)
        \o
        (IF velocity.average_cpm > 1500
         THEN <<Flag(10, "high", "Typing Speed",
                     render("high_typing_speed", [average_cpm |-> velocity.average_cpm]))>>
         ELSE <<>>)
        \o
        (IF high_risk_files # <<>>
         THEN <<Flag(9, "high", "File Analysis",
                     render("file_risks", [file |-> high_risk_files[1].file,
                                           issues |-> high_risk_files[1].issues]))>>
         ELSE <<>>)
        \o
        (IF m.incremental_score < 40
         THEN <<Flag(5, "medium", "Development Pattern",
                     render("chunks_appeared", [incremental_score |-> m.incremental_score]))>>
         ELSE <<>>)
        \o
        (IF m.typing_variance < 30
         THEN <<Flag(5, "medium", "Typing Behavior",
                     render("robotic_typing", [typing_variance |-> m.typing_variance]))>>
         ELSE <<>>)
        \o
        (IF m.error_correction_ratio < 20 /\ total_chars > 200
         THEN <<Flag(5, "medium", "Error Correction",
                     render("few_corrections",
                            [error_correction_ratio |-> m.error_correction_ratio]))>>
         ELSE <<>>)
        \o
        (IF m.session_consistency < 40
         THEN <<Flag(5, "medium", "Work Sessions",
                     render("few_sessions", [session_consistency |-> m.session_consistency]))>>
         ELSE <<>>)

generate_detailed_flags(m, wp) ==
    LET sorted == SortByPriority(potential_flags(m, wp))
        top3 == SubSeq(sorted, 1, Min(3, Len(sorted)))
        flags_out == [i \in 1..Len(top3) |-> DropPriority(top3[i])]
    IN  IF flags_out = <<>>
        THEN <<[severity |-> "none", category |-> "Assessment",
                message |-> render("no_suspicious", <<>>)]>>
        ELSE flags_out

----------------------------------------------------------------------------
(* Score aggregator *)

\* the weighted sum in thousandths of a point (component tenths times
\* weights in hundredths)
weighted_sum(m) ==
    m.incremental_score * 25 + m.typing_variance * 20
    + m.error_correction_ratio * 20 + m.session_consistency * 20
    + m.velocity.score * 15

\* the hard caps taken as lower bounds (max for min)
capped_score_max(m) ==
    LET w == weighted_sum(m)
        c1 == IF m.incremental_score <= 20 \/ m.typing_variance <= 20
                 \/ m.velocity.score <= 20
              THEN Max(w, 3000) ELSE w
    IN  IF m.velocity.average_cpm > 5000 THEN Max(c1, 1000) ELSE c1

\* the score after the two hard caps, in thousandths
capped_score(m) ==
    LET w == weighted_sum(m)
        c1 == IF m.incremental_score <= 20 \/ m.typing_variance <= 20
                 \/ m.velocity.score <= 20
              THEN Min(w, 3000) ELSE w
    IN  IF m.velocity.average_cpm > 5000 THEN Min(c1, 1000) ELSE c1

\* the paste-burst factor in tenths
burst_factor(m) ==
    IF m.paste_burst_count > 5 THEN 3
    ELSE IF m.paste_burst_count > 2 THEN 6
    ELSE 10

\* the single-session factor in tenths
session_factor(m) == IF m.session_consistency <= 10 THEN 7 ELSE 10

\* the penalties applied to the weighted sum and the hard caps after them
penalized_score_caps_last(m) ==
    LET p == weighted_sum(m) * burst_factor(m) * session_factor(m)
        c1 == IF m.incremental_score <= 20 \/ m.typing_variance <= 20
                 \/ m.velocity.score <= 20
              THEN Min(p, 300000) ELSE p
        c2 == IF m.velocity.average_cpm > 5000 THEN Min(c1, 100000) ELSE c1
    IN  Max(c2, 0)

\* the score before the final rounding, in units of 1/100000 point
penalized_score(m) == Max(capped_score(m) * burst_factor(m) * session_factor(m), 0)

\* round(max(score, 0.0), 1) in tenths (the set of admitted values)
calculate_overall_score(m) == RoundEither(penalized_score(m), 10000)

----------------------------------------------------------------------------
(* calculate_all_metrics *)

\* the metrics dict before overall_score, work_patterns and flags are added
\* (the set of admitted dicts)
extract_metrics(ed) ==
    {[incremental_score |-> incremental,
      typing_variance |-> variance,
      error_correction_ratio |-> correction,
      paste_burst_count |-> paste_burst_detection(ed),
      session_consistency |-> session_consistency_score(ed),
      velocity |-> velocity_data,
      velocity_score |-> velocity_data.score,
      file_risks |-> file_risks]
     : incremental \in incremental_score(ed),
       variance \in typing_variance(ed),
       correction \in error_correction_ratio(ed),
       velocity_data \in code_velocity_analysis(ed),
       file_risks \in file_level_analysis(ed)}

----------------------------------------------------------------------------
(* State machine: an event log is recorded event by event, in time order,  *)
(* and then analysed by calculate_all_metrics.                             *)

MaxEvents == 3

Formats == {"compact", "legacy"}
BaseTimes == {100000}
Gaps == {0, 1000, 301000}
DeleteGaps == {0, 1000}
SaveGaps == {0}
DeleteChars == {1}
InsertChars == {0, 100, 101, 5000}
Files == {<<"src", "a.py">>}

EmptyLog(format, base) == [format |-> format, base_time |-> base, events |-> <<>>]

\* the kind as the format writes it
KindOf(ed, kind) ==
    IF ed.format = "compact"
    THEN (IF kind = "insert" THEN "i" ELSE IF kind = "delete" THEN "d"
          ELSE IF kind = "save" THEN "s" ELSE kind)
    ELSE kind

\* time of the last recorded event as the format writes it (a delta from
\* base_time in a compact record, absolute in a legacy list)
LastWritten(ed) ==
    IF ed.events # <<>> /\ "t" \in DOMAIN Last(ed.events) THEN Last(ed.events).t
    ELSE IF ed.format = "compact" THEN 0 ELSE ed.base_time

\* the log with one more event, `gap` ms after the last one
Extended(ed, kind, gap, chars, file) ==
    [ed EXCEPT !.events = Append(@, [t |-> LastWritten(ed) + gap,
                                     k |-> KindOf(ed, kind),
                                     f |-> file,
                                     c |-> chars])]

NoMetrics == <<>>
NoFlags == <<>>

\* an empty log about to be recorded, nothing computed yet
InitWith(formats, bases) ==
    /\ event_data \in {EmptyLog(f, b) : f \in formats, b \in bases}
    /\ metrics = NoMetrics
    /\ work_patterns = <<>>
    /\ overall_score = 0
    /\ flags = NoFlags
    /\ pc = "recording"
    /\ NoStorage

Init == InitWith(Formats, BaseTimes)

RecordInsert(gaps, charset, files, bound) ==
    /\ pc = "recording"
    /\ Len(event_data.events) < bound
    /\ \E gap \in gaps, chars \in charset, file \in files :
           event_data' = Extended(event_data, "insert", gap, chars, file)
    /\ UNCHANGED <<metrics, work_patterns, overall_score, flags, pc>>
    /\ UNCHANGED storage

RecordDelete(gaps, charset, files, bound) ==
    /\ pc = "recording"
    /\ Len(event_data.events) < bound
    /\ \E gap \in gaps, chars \in charset, file \in files :
           event_data' = Extended(event_data, "delete", gap, chars, file)
    /\ UNCHANGED <<metrics, work_patterns, overall_score, flags, pc>>
    /\ UNCHANGED storage

RecordSave(gaps, files, bound) ==
    /\ pc = "recording"
    /\ Len(event_data.events) < bound
    /\ \E gap \in gaps, file \in files :
           event_data' = Extended(event_data, "save", gap, 0, file)
    /\ UNCHANGED <<metrics, work_patterns, overall_score, flags, pc>>
    /\ UNCHANGED storage

\* calculate_all_metrics(event_data)
Analyze ==
    /\ pc = "recording"
    /\ ~Raises(event_data)
    /\ \E m \in extract_metrics(event_data),
          wp \in analyze_work_patterns(event_data) :
           /\ metrics' = m
           /\ work_patterns' = wp
           /\ overall_score' \in calculate_overall_score(m)
           /\ flags' = generate_detailed_flags(m, wp)
    /\ pc' = "analysed"
    /\ UNCHANGED event_data
    /\ UNCHANGED storage

Next ==
    \/ RecordInsert(Gaps, InsertChars, Files, MaxEvents)
    \/ RecordDelete(DeleteGaps, DeleteChars, Files, MaxEvents)
    \/ RecordSave(SaveGaps, Files, MaxEvents)
    \/ Analyze

Spec == Init /\ [][Next]_vars

----------------------------------------------------------------------------
(* Paste bursts: logs of inserts just under and just over the large-paste  *)
(* size, 1999 or 2000 ms apart, starting at or near timestamp 0, counted   *)
(* by paste_burst_detection alone; a counted log can get one more large    *)
(* paste at its chronological position and is counted again.               *)

MaxBurstEvents == 3

BurstBases == {0, 5000}
BurstGaps == {0, 1999, 2000}
BurstChars == {100, 101}
BurstDeleteGaps == {1999}
BurstDeleteChars == {500}
AddedOffsets == {0, 1000}

InitBurst == InitWith(Formats, BurstBases)

\* metrics.paste_burst_detection(events)
CountBursts ==
    /\ pc = "recording"
    /\ metrics' = [paste_burst_count |-> paste_burst_detection(event_data)]
    /\ pc' = "bursts"
    /\ UNCHANGED <<event_data, work_patterns, overall_score, flags>>
    /\ UNCHANGED storage

\* the written times a paste may be added at: at or one second after the
\* origin or any recorded event
AddTimes(ed) ==
    {x + d : x \in {IF ed.format = "compact" THEN 0 ELSE ed.base_time}
                   \cup {ed.events[i].t : i \in 1..Len(ed.events)},
             d \in AddedOffsets}

\* the log with a large paste written at time t after its first `pos` events
WithPaste(ed, pos, t) ==
    [ed EXCEPT !.events =
        SubSeq(@, 1, pos)
        \o <<[t |-> t, k |-> KindOf(ed, "insert"), f |-> <<"src", "a.py">>, c |-> 101]>>
        \o SubSeq(@, pos + 1, Len(@))]

\* one more qualifying Insert is added to a counted log, at a position
\* that keeps the log sorted by time, and the bursts are counted again
AddPaste ==
    /\ pc \in {"bursts", "bursts_added"}
    /\ Len(event_data.events) < MaxBurstEvents
    /\ \E pos \in 0..Len(event_data.events), t \in AddTimes(event_data) :
           /\ pos > 0 => event_data.events[pos].t <= t
           /\ pos < Len(event_data.events) => t <= event_data.events[pos + 1].t
           /\ event_data' = WithPaste(event_data, pos, t)
    /\ metrics' = [paste_burst_count |-> paste_burst_detection(event_data')]
    /\ pc' = "bursts_added"
    /\ UNCHANGED <<work_patterns, overall_score, flags>>
    /\ UNCHANGED storage

NextBurst ==
    \/ RecordInsert(BurstGaps, BurstChars, Files, MaxBurstEvents)
    \/ RecordDelete(BurstDeleteGaps, BurstDeleteChars, Files, MaxBurstEvents)
    \/ CountBursts
    \/ AddPaste

SpecBurst == InitBurst /\ [][NextBurst]_vars

----------------------------------------------------------------------------
(* Sessions: logs whose consecutive events are 0, exactly 5 minutes or     *)
(* 5 minutes and 1 ms apart, scored by session_consistency_score alone.    *)

MaxSessionEvents == 6

SessionGaps == {0, 300000, 300001}
SessionSaveGaps == {300001}
SessionChars == {10}

InitSessions == InitWith(Formats, BaseTimes)

\* metrics.session_consistency_score(events)
ScoreSessions ==
    /\ pc = "recording"
    /\ metrics' = [session_consistency |-> session_consistency_score(event_data)]
    /\ pc' = "sessions"
    /\ UNCHANGED <<event_data, work_patterns, overall_score, flags>>
    /\ UNCHANGED storage

NextSessions ==
    \/ RecordInsert(SessionGaps, SessionChars, Files, MaxSessionEvents)
    \/ RecordSave(SessionSaveGaps, Files, MaxSessionEvents)
    \/ ScoreSessions

SpecSessions == InitSessions /\ [][NextSessions]_vars

----------------------------------------------------------------------------
(* Regular typing: logs of up to five events typed at fixed intervals      *)
(* (scenario_regular_intervals), analysed by calculate_all_metrics.        *)

MaxRegularEvents == 5

RegularGaps == {1000, 2000}
RegularChars == {20, 200}
RegularDeleteGaps == {1000}

InitRegular == InitWith(Formats, BaseTimes)

NextRegular ==
    \/ RecordInsert(RegularGaps, RegularChars, Files, MaxRegularEvents)
    \/ RecordDelete(RegularDeleteGaps, DeleteChars, Files, MaxRegularEvents)
    \/ Analyze

SpecRegular == InitRegular /\ [][NextRegular]_vars

----------------------------------------------------------------------------
(* Session-structured work: a log is recorded one whole work session at a  *)
(* time (scenario_sessions): n inserts of c characters typed 1000 ms apart *)
(* and one single-character delete 1000 ms after the last, the session     *)
(* starting `gap` ms after the previous one ended.                         *)

MaxWorkSessions == 5

\* <<inserts, chars per insert, gap before the session>>
SessionShapes ==
    {<<2, 20, 301000>>, <<2, 100, 301000>>, <<1, 20, 601000>>, <<3, 20, 601000>>}

RECURSIVE TypeSession(_, _, _, _)
TypeSession(ed, n, chars, gap) ==
    IF n = 0 THEN Extended(ed, "delete", gap, 1, <<"src", "a.py">>)
    ELSE TypeSession(Extended(ed, "insert", gap, chars, <<"src", "a.py">>),
                     n - 1, chars, 1000)

\* the number of sessions recorded so far
RecordedSessions(ed) ==
    Cardinality({i \in 1..Len(ed.events) : ed.events[i].k \in {"d", "delete"}})

InitWork == InitWith(Formats, BaseTimes)

RecordSession ==
    /\ pc = "recording"
    /\ RecordedSessions(event_data) < MaxWorkSessions
    /\ \E shape \in SessionShapes :
           event_data' = TypeSession(event_data, shape[1], shape[2],
                                     IF event_data.events = <<>> THEN 0 ELSE shape[3])
    /\ UNCHANGED <<metrics, work_patterns, overall_score, flags, pc>>
    /\ UNCHANGED storage

NextWork == RecordSession \/ Analyze

SpecWork == InitWork /\ [][NextWork]_vars

----------------------------------------------------------------------------
(* Velocity: logs of inserts and deletes 0, 1 or exactly 30 seconds apart  *)
(* (one window length), measured by code_velocity_analysis alone, as       *)
(* recorded and with the char_count of every Insert doubled.               *)

MaxVelocityEvents == 3

VelocityGaps == {0, 1000, 30000}
VelocityChars == {0, 20, 60}
VelocityDeleteGaps == {1000, 30000}

InitVelocity == InitWith(Formats, BaseTimes)

\* the log with the char_count of every Insert doubled, all else fixed
Doubled(ed) ==
    [ed EXCEPT !.events =
        [i \in 1..Len(@) |->
            IF Ty(ed, @[i]) = "insert" THEN [@[i] EXCEPT !.c = 2 * @] ELSE @[i]]]

\* metrics.code_velocity_analysis(events), on the log and on its doubling;
\* windows keeps the per-window totals the first call averaged
MeasureVelocity ==
    /\ pc = "recording"
    /\ \E v \in code_velocity_analysis(event_data),
          v2 \in code_velocity_analysis(Doubled(event_data)) :
           metrics' = [velocity |-> v, velocity_doubled |-> v2,
                       windows |-> IF Len(Events(event_data)) < 2
                                      \/ InsertEvents(event_data) = <<>>
                                   THEN <<>>
                                   ELSE velocity_windows(event_data)]
    /\ pc' = "velocity"
    /\ UNCHANGED <<event_data, work_patterns, overall_score, flags>>
    /\ UNCHANGED storage

NextVelocity ==
    \/ RecordInsert(VelocityGaps, VelocityChars, Files, MaxVelocityEvents)
    \/ RecordDelete(VelocityDeleteGaps, DeleteChars, Files, MaxVelocityEvents)
    \/ MeasureVelocity

SpecVelocity == InitVelocity /\ [][NextVelocity]_vars

----------------------------------------------------------------------------
(* Files and kinds: logs over several files, two of them with the same     *)
(* final path segment, holding inserts, deletes, saves and events of a     *)
(* kind outside the three known ones, analysed by calculate_all_metrics.   *)

MaxFileEvents == 3

FilePaths == {<<"src", "a.py">>, <<"lib", "a.py">>, <<"b.py">>}
SavedPaths == {<<"b.py">>}
OtherPaths == {<<"src", "a.py">>, <<"b.py">>}
FileGaps == {1000}
FileChars == {20, 101}
OtherKinds == {"x"}
OtherChars == {101}

InitFiles == InitWith(Formats, BaseTimes)

\* an event whose kind is none of insert, delete, save
RecordOther(gaps, kinds, charset, files, bound) ==
    /\ pc = "recording"
    /\ Len(event_data.events) < bound
    /\ \E gap \in gaps, kind \in kinds, chars \in charset, file \in files :
           event_data' = Extended(event_data, kind, gap, chars, file)
    /\ UNCHANGED <<metrics, work_patterns, overall_score, flags, pc>>
    /\ UNCHANGED storage

NextFiles ==
    \/ RecordInsert(FileGaps, FileChars, FilePaths, MaxFileEvents)
    \/ RecordDelete(FileGaps, DeleteChars, FilePaths, MaxFileEvents)
    \/ RecordSave(FileGaps, SavedPaths, MaxFileEvents)
    \/ RecordOther(FileGaps, OtherKinds, OtherChars, OtherPaths, MaxFileEvents)
    \/ Analyze

SpecFiles == InitFiles /\ [][NextFiles]_vars

----------------------------------------------------------------------------
(* Malformed events: logs in which events lack fields (a compact array of  *)
(* fewer than 4 elements, a legacy dict without some of its keys), given   *)
(* to calculate_all_metrics, which returns a result or raises.             *)

MaxMalformedEvents == 3

MalformedGaps == {1000}
MalformedChars == {20}

\* the fields a malformed event lacks: the tail of a compact array, one key
\* or every key of a legacy dict
MissingFields(format) ==
    IF format = "compact"
    THEN {{"c"}, {"f", "c"}, {"k", "f", "c"}, {"t", "k", "f", "c"}}
    ELSE {{"t"}, {"k"}, {"f"}, {"c"}, {"t", "k", "f", "c"}}

\* the log whose last event has lost the fields `missing`
Truncated(ed, missing) ==
    [ed EXCEPT !.events[Len(ed.events)] =
        [x \in {"t", "k", "f", "c"} \ missing |-> @[x]]]

InitMalformed == InitWith(Formats, BaseTimes)

RecordMalformed ==
    /\ pc = "recording"
    /\ Len(event_data.events) < MaxMalformedEvents
    /\ \E gap \in MalformedGaps, kind \in {"insert", "delete"},
          chars \in MalformedChars, file \in Files,
          missing \in MissingFields(event_data.format) :
           event_data' = Truncated(Extended(event_data, kind, gap, chars, file), missing)
    /\ UNCHANGED <<metrics, work_patterns, overall_score, flags, pc>>
    /\ UNCHANGED storage

\* calculate_all_metrics(event_data) raising out of an accessor
AnalyzeRaises ==
    /\ pc = "recording"
    /\ Raises(event_data)
    /\ pc' = "failed"
    /\ UNCHANGED <<event_data, metrics, work_patterns, overall_score, flags>>
    /\ UNCHANGED storage

NextMalformed ==
    \/ RecordInsert(MalformedGaps, MalformedChars, Files, MaxMalformedEvents)
    \/ RecordDelete(MalformedGaps, DeleteChars, Files, MaxMalformedEvents)
    \/ RecordMalformed
    \/ Analyze
    \/ AnalyzeRaises

SpecMalformed == InitMalformed /\ [][NextMalformed]_vars

----------------------------------------------------------------------------
(* The message renderer on its own: messages.render called with a known or *)
(* an unknown key and with any part of the arguments the template needs,   *)
(* with or without an argument it does not need.  The call (key, context)  *)
(* is kept in metrics, the string returned in flags.                       *)

UnknownKeys == {"bogus"}
ExtraArguments == {"note"}
ArgumentValues == {0, 75}

RenderKeys == DOMAIN MESSAGES \cup UnknownKeys

\* the names a call of `key` may pass
ArgumentNames(key) ==
    (IF key \in DOMAIN MESSAGES THEN MESSAGES[key].placeholders ELSE {})
        \cup ExtraArguments

InitRender ==
    /\ event_data = EmptyLog("legacy", 0)
    /\ metrics = NoMetrics
    /\ work_patterns = <<>>
    /\ overall_score = 0
    /\ flags = NoFlags
    /\ pc = "idle"
    /\ NoStorage

\* a caller picks the key and the keyword arguments
CallRender ==
    /\ pc = "idle"
    /\ \E key \in RenderKeys :
       \E names \in SUBSET ArgumentNames(key) :
       \E context \in [names -> ArgumentValues] :
           metrics' = [key |-> key, context |-> context]
    /\ pc' = "calling"
    /\ UNCHANGED <<event_data, work_patterns, overall_score, flags>>
    /\ UNCHANGED storage

\* render(key, **context)
Render ==
    /\ pc = "calling"
    /\ flags' = render(metrics.key, metrics.context)
    /\ pc' = "rendered"
    /\ UNCHANGED <<event_data, metrics, work_patterns, overall_score>>
    /\ UNCHANGED storage

NextRender == CallRender \/ Render

SpecRender == InitRender /\ [][NextRender]_vars

----------------------------------------------------------------------------
(* The components evaluated one by one: the six extractors,                *)
(* file_level_analysis and analyze_work_patterns are each called once on   *)
(* the submitted log, in any order; metrics collects their results under   *)
(* the component names, and the result is assembled as                     *)
(* calculate_all_metrics assembles it once all of them have returned.      *)

MaxParallelEvents == 2

ParallelGaps == {1000}
ParallelChars == {20, 101}

Components ==
    {"incremental_score", "typing_variance", "error_correction_ratio",
     "paste_burst_count", "session_consistency", "velocity", "file_risks",
     "work_patterns"}

\* the values the call of one component on the log can return
Component(name, ed) ==
    CASE name = "incremental_score" -> incremental_score(ed)
      [] name = "typing_variance" -> typing_variance(ed)
      [] name = "error_correction_ratio" -> error_correction_ratio(ed)
      [] name = "paste_burst_count" -> {paste_burst_detection(ed)}
      [] name = "session_consistency" -> {session_consistency_score(ed)}
      [] name = "velocity" -> code_velocity_analysis(ed)
      [] name = "file_risks" -> file_level_analysis(ed)
      [] name = "work_patterns" -> analyze_work_patterns(ed)

\* a component that consumes the head of the list it was given
Passed_consuming(name, ed) ==
    IF name = "file_risks" /\ ed.events # <<>>
    THEN [ed EXCEPT !.events = Tail(@)]
    ELSE ed

\* the log as the call of a component leaves it: the components read the
\* events and build new lists, none writes to its argument
Passed(name, ed) == ed

InitParallel == InitWith(Formats, BaseTimes)

\* the log is complete and handed to the components
Submit ==
    /\ pc = "recording"
    /\ pc' = "evaluating"
    /\ UNCHANGED <<event_data, metrics, work_patterns, overall_score, flags>>
    /\ UNCHANGED storage

Evaluate ==
    /\ pc = "evaluating"
    /\ \E name \in Components \ DOMAIN metrics :
       \E value \in Component(name, event_data) :
           /\ metrics' = [x \in DOMAIN metrics \cup {name} |->
                             IF x = name THEN value ELSE metrics[x]]
           /\ event_data' = Passed(name, event_data)
    /\ UNCHANGED <<work_patterns, overall_score, flags, pc>>
    /\ UNCHANGED storage

\* the dict and the dependent stages of calculate_all_metrics
Assemble ==
    /\ pc = "evaluating"
    /\ DOMAIN metrics = Components
    /\ LET m == [incremental_score |-> metrics.incremental_score,
                 typing_variance |-> metrics.typing_variance,
                 error_correction_ratio |-> metrics.error_correction_ratio,
                 paste_burst_count |-> metrics.paste_burst_count,
                 session_consistency |-> metrics.session_consistency,
                 velocity |-> metrics.velocity,
                 velocity_score |-> metrics.velocity.score,
                 file_risks |-> metrics.file_risks]
       IN  /\ metrics' = m
           /\ work_patterns' = metrics.work_patterns
           /\ overall_score' \in calculate_overall_score(m)
           /\ flags' = generate_detailed_flags(m, metrics.work_patterns)
    /\ pc' = "analysed"
    /\ UNCHANGED event_data
    /\ UNCHANGED storage

NextParallel ==
    \/ RecordInsert(ParallelGaps, ParallelChars, Files, MaxParallelEvents)
    \/ RecordDelete(ParallelGaps, DeleteChars, Files, MaxParallelEvents)
    \/ Submit
    \/ Evaluate
    \/ Assemble

SpecParallel == InitParallel /\ [][NextParallel]_vars

----------------------------------------------------------------------------
(* File risk: a log is recorded one run at a time, a run being 1 or 11     *)
(* inserts of one size into one file, typed 1 or 12 seconds apart (11      *)
(* inserts 12 seconds apart span exactly 2 minutes), or one delete; a run  *)
(* starts 2 seconds after the previous one ended.                          *)

MaxRuns == 3

RunGap == 2000

\* <<kind, events, chars per event, ms between the events, file>>
RunShapes ==
    {<<"insert", 11, 20, 1000, <<"a.py">>>>, <<"insert", 11, 20, 12000, <<"a.py">>>>,
     <<"insert", 11, 101, 1000, <<"a.py">>>>, <<"insert", 11, 101, 12000, <<"a.py">>>>,
     <<"insert", 1, 20, 1000, <<"a.py">>>>, <<"insert", 1, 101, 1000, <<"a.py">>>>,
     <<"insert", 1, 20, 1000, <<"b.py">>>>, <<"insert", 1, 101, 1000, <<"b.py">>>>,
     <<"delete", 1, 1, 1000, <<"a.py">>>>}

RECURSIVE TypeRun(_, _, _, _, _, _, _)
TypeRun(ed, kind, n, chars, spacing, file, gap) ==
    IF n = 0 THEN ed
    ELSE TypeRun(Extended(ed, kind, gap, chars, file),
                 kind, n - 1, chars, spacing, file, spacing)

\* the number of runs recorded so far: the events that come RunGap after
\* their predecessor, and the first event
RecordedRuns(ed) ==
    Cardinality({i \in 1..Len(ed.events) :
                    i = 1 \/ ed.events[i].t - ed.events[i - 1].t = RunGap})

InitRisk == InitWith(Formats, BaseTimes)

RecordRun ==
    /\ pc = "recording"
    /\ RecordedRuns(event_data) < MaxRuns
    /\ \E shape \in RunShapes :
           event_data' = TypeRun(event_data, shape[1], shape[2], shape[3],
                                 shape[4], shape[5], RunGap)
    /\ UNCHANGED <<metrics, work_patterns, overall_score, flags, pc>>
    /\ UNCHANGED storage

NextRisk == RecordRun \/ Analyze

SpecRisk == InitRisk /\ [][NextRisk]_vars

----------------------------------------------------------------------------
(* The two dependent stages on their own: calculate_overall_score and      *)
(* generate_detailed_flags applied, in the order calculate_all_metrics     *)
(* applies them, to metrics and work patterns drawn from value sets that   *)
(* straddle every threshold they test.                                     *)

IncrementalValues == {20, 21, 39, 40}
VarianceValues == {20, 29, 30}
CorrectionValues == {19, 20}
SessionValues == {0, 30, 100}
AvgCpmValues == {1500, 1501, 1900, 5001}
BurstCounts == {2, 3, 6}
TotalCharValues == {200, 201, 501}
PastePercentValues == {700, 701}
ActiveMinuteValues == {99, 100}

FileEntry(name, risk, issues) ==
    [file |-> <<name>>, risk |-> risk, issues |-> issues, total_chars |-> 300,
     paste_count |-> 0, edit_ratio |-> 0, insert_count |-> 3, delete_count |-> 0]

FileRiskValues ==
    {<<>>,
     <<FileEntry("a.py", "medium", <<[issue |-> "large pastes", n |-> 1]>>)>>,
     <<FileEntry("a.py", "low", <<>>),
       FileEntry("b.py", "high", <<[issue |-> "entire file in", minutes |-> 0]>>)>>}

\* velocity records as code_velocity_analysis returns them
VelocityValues ==
    {NoVelocity} \cup
    UNION {{[average_cpm |-> a, max_cpm |-> a, score |-> score,
             suspicious_bursts |-> <<>>] : score \in velocity_score(a)}
           : a \in AvgCpmValues}

MetricsValues ==
    {[incremental_score |-> i, typing_variance |-> t, error_correction_ratio |-> e,
      paste_burst_count |-> b, session_consistency |-> c, velocity |-> v,
      velocity_score |-> v.score, file_risks |-> f] :
        i \in IncrementalValues, t \in VarianceValues, e \in CorrectionValues,
        b \in BurstCounts, c \in SessionValues, v \in VelocityValues,
        f \in FileRiskValues}

WorkPatternValues ==
    {<<>>} \cup
    {[total_duration_minutes |-> a, active_coding_minutes |-> a, breaks_count |-> 0,
      total_chars_inserted |-> n, total_chars_deleted |-> 0,
      paste_percentage |-> p, large_pastes_count |-> 0] :
        a \in ActiveMinuteValues, n \in TotalCharValues, p \in PastePercentValues}

InitAggregate ==
    /\ event_data = EmptyLog("legacy", 0)
    /\ metrics \in MetricsValues
    /\ work_patterns \in WorkPatternValues
    /\ overall_score = 0
    /\ flags = NoFlags
    /\ pc = "aggregating"
    /\ NoStorage

\* metrics['overall_score'] = calculate_overall_score(metrics)
Score ==
    /\ pc = "aggregating"
    /\ overall_score' \in calculate_overall_score(metrics)
    /\ pc' = "scored"
    /\ UNCHANGED <<event_data, metrics, work_patterns, flags>>
    /\ UNCHANGED storage

\* flags = generate_detailed_flags(metrics, event_data, work_patterns)
GenerateFlags ==
    /\ pc = "scored"
    /\ flags' = generate_detailed_flags(metrics, work_patterns)
    /\ pc' = "analysed"
    /\ UNCHANGED <<event_data, metrics, work_patterns, overall_score>>
    /\ UNCHANGED storage

NextAggregate == Score \/ GenerateFlags

SpecAggregate == InitAggregate /\ [][NextAggregate]_vars

----------------------------------------------------------------------------
(* Properties of the analysis of a recorded log (Spec) *)

Analysed == pc = "analysed"

\* the absolute timestamps, kinds and sizes of the recorded events, read off
\* the log as written
AbsTime(i) ==
    IF event_data.format = "compact"
    THEN event_data.base_time + event_data.events[i].t
    ELSE event_data.events[i].t

IsInsert(i) == event_data.events[i].k \in {"i", "insert"}
IsDelete(i) == event_data.events[i].k \in {"d", "delete"}
Chars(i) == event_data.events[i].c
Indices == 1..Len(event_data.events)
InsertIndices == {i \in Indices : IsInsert(i)}

RECURSIVE CharsAt(_)
CharsAt(S) ==
    IF S = {} THEN 0
    ELSE LET x == CHOOSE y \in S : TRUE IN Chars(x) + CharsAt(S \ {x})

TotalInserted == CharsAt(InsertIndices)
LargeInserted == CharsAt({i \in InsertIndices : Chars(i) > 100})

InScore(x) == x \in 0..100

\* C1: for every event log, incremental_score, typing_variance,
\* error_correction_ratio, session_consistency, velocity.score and
\* overall_score returned by calculate_all_metrics are within [0,10]
\* (0..100 tenths) and paste_burst_count is an integer >= 0.
C1_ScoresInRange ==
    Analysed =>
        /\ InScore(metrics.incremental_score)
        /\ InScore(metrics.typing_variance)
        /\ InScore(metrics.error_correction_ratio)
        /\ InScore(metrics.session_consistency)
        /\ InScore(metrics.velocity.score)
        /\ InScore(overall_score)
        /\ metrics.paste_burst_count \in Nat

\* a compact log analysed with scores strictly inside the range: some
\* typing variance, two sessions, a mix of small and large inserts
C1_Witness ==
    /\ Analysed
    /\ event_data.format = "compact"
    /\ metrics.typing_variance > 0
    /\ metrics.session_consistency > 0
    /\ metrics.incremental_score \in 1..99
    /\ overall_score > 0

\* the log is one burst of activity: all events within a second of each
\* other, and all inserted characters come from one Insert of 5000 or more
IsInstantPaste ==
    /\ event_data.events # <<>>
    /\ AbsTime(Len(event_data.events)) - AbsTime(1) <= 1000
    /\ \E i \in InsertIndices :
           /\ Chars(i) >= 5000
           /\ \A j \in InsertIndices \ {i} : Chars(j) = 0

\* the exact score lies midway between two tenths (the rounding side is
\* then decided by the float and both are admitted by the model)
Midway == penalized_score(metrics) % 10000 = 5000

\* C4: a single-session log of near-zero (or zero) duration whose inserted
\* characters all come from one huge Insert gets overall_score <= 1.0
\* (stated on the logs whose exact score is not a rounding tie).
C4_InstantPasteCapped ==
    (Analysed /\ IsInstantPaste /\ ~Midway) => overall_score <= 10

\* C7 as stated: 10.0 whenever every Insert has char_count <= 100, and 0.0
\* whenever all inserted characters come from Inserts over 100.
C7_Original ==
    Analysed =>
        /\ (\A i \in InsertIndices : Chars(i) <= 100)
               => metrics.incremental_score = 100
        /\ (LargeInserted = TotalInserted) => metrics.incremental_score = 0

\* C7 amended: incremental_score is 10.0 for every log with at least one
\* inserted character whose Inserts all have char_count <= 100, and 0.0
\* for every log whose inserted characters all come from Inserts over 100
\* (which includes the logs with no inserted character at all).
C7_IncrementalEnds ==
    Analysed =>
        /\ (TotalInserted > 0 /\ \A i \in InsertIndices : Chars(i) <= 100)
               => metrics.incremental_score = 100
        /\ (LargeInserted = TotalInserted) => metrics.incremental_score = 0

\* a log of small inserts only, one of them of exactly 100 characters,
\* scored 10.0
C7_Witness ==
    /\ Analysed
    /\ TotalInserted > 0
    /\ \A i \in InsertIndices : Chars(i) <= 100
    /\ \E i \in InsertIndices : Chars(i) = 100
    /\ Cardinality(InsertIndices) >= 2
    /\ metrics.incremental_score = 100

----------------------------------------------------------------------------
(* Properties of the flag generator and the score aggregator              *)
(* (SpecAggregate)                                                         *)

WpGet(key) == IF key \in DOMAIN work_patterns THEN work_patterns[key] ELSE 0

\* the eight candidate conditions of the flag table, on the inputs
CodeOriginCond == WpGet("paste_percentage") > 700 /\ WpGet("total_chars_inserted") > 500
TimeAnalysisCond == WpGet("active_coding_minutes") < 100 /\ WpGet("total_chars_inserted") > 500
TypingSpeedCond == metrics.velocity.average_cpm > 1500
FileAnalysisCond == \E i \in 1..Len(metrics.file_risks) : metrics.file_risks[i].risk = "high"
DevelopmentCond == metrics.incremental_score < 40
TypingBehaviorCond == metrics.typing_variance < 30
ErrorCorrectionCond == metrics.error_correction_ratio < 20 /\ WpGet("total_chars_inserted") > 200
WorkSessionsCond == metrics.session_consistency < 40

AnyCandidate ==
    \/ CodeOriginCond \/ TimeAnalysisCond \/ TypingSpeedCond \/ FileAnalysisCond
    \/ DevelopmentCond \/ TypingBehaviorCond \/ ErrorCorrectionCond \/ WorkSessionsCond

IsNoneFlag(f) == f.severity = "none" /\ f.category = "Assessment"

\* C2: generate_detailed_flags returns 1 to 3 flags; the single
\* none/Assessment flag exactly when none of the eight candidate conditions
\* holds; a none flag never comes with another flag; no returned flag
\* carries a priority field.
C2_FlagsShape ==
    Analysed =>
        /\ Len(flags) \in 1..3
        /\ (Len(flags) = 1 /\ IsNoneFlag(flags[1])) <=> ~AnyCandidate
        /\ (\E i \in 1..Len(flags) : flags[i].severity = "none") => Len(flags) = 1
        /\ \A i \in 1..Len(flags) : "priority" \notin DOMAIN flags[i]

\* inputs on which no candidate holds, answered by the single none flag
C2_Witness ==
    /\ Analysed
    /\ ~AnyCandidate
    /\ work_patterns # <<>>
    /\ Len(flags) = 1
    /\ IsNoneFlag(flags[1])

Scored == pc \in {"scored", "analysed"}

\* C3: the final overall_score is <= 3.0 whenever incremental_score <= 2 or
\* typing_variance <= 2 or velocity.score <= 2, and <= 1.0 whenever
\* velocity.average_cpm > 500, whatever the other components and penalties.
C3_HardCaps ==
    Scored =>
        /\ (\/ metrics.incremental_score <= 20
            \/ metrics.typing_variance <= 20
            \/ metrics.velocity.score <= 20) => overall_score <= 30
        /\ metrics.velocity.average_cpm > 5000 => overall_score <= 10

\* a weighted sum above 3.0 cut down to exactly 3.0 by the first cap alone
C3_Witness ==
    /\ Scored
    /\ metrics.incremental_score <= 20
    /\ metrics.typing_variance > 20
    /\ metrics.velocity.score > 20
    /\ weighted_sum(metrics) > 3000
    /\ metrics.paste_burst_count <= 2
    /\ metrics.session_consistency > 10
    /\ overall_score = 30

----------------------------------------------------------------------------
(* Properties of regular typing (SpecRegular) *)

\* the log of scenario_regular_intervals: 5 Inserts of 20 characters,
\* exactly 1000 ms apart, in one file, no deletes
IsFiveRegular ==
    /\ Len(event_data.events) = 5
    /\ \A i \in Indices : IsInsert(i) /\ Chars(i) = 20
    /\ \A i \in Indices : event_data.events[i].f = event_data.events[1].f
    /\ \A i \in 2..5 : AbsTime(i) - AbsTime(i - 1) = 1000

IsRoboticFlag(f) ==
    /\ f.severity = "medium"
    /\ f.category = "Typing Behavior"
    /\ f.message.form = "rendered"
    /\ f.message.shows = "Robotic typing patterns (variance: {typing_variance}/10)"

\* C5: for the log of 5 Inserts of 20 chars, exactly 1000 ms apart, in one
\* file, with no deletes, calculate_all_metrics returns incremental_score
\* 10.0 and typing_variance 0.0, and the returned flags contain the
\* medium-severity Typing Behavior flag with the robotic-typing message.
C5_RoboticFlag ==
    (Analysed /\ IsFiveRegular) =>
        /\ metrics.incremental_score = 100
        /\ metrics.typing_variance = 0
        /\ \E i \in 1..Len(flags) : IsRoboticFlag(flags[i])

\* the regular log analysed: three flags, the robotic one showing 0.0
C5_Witness ==
    /\ Analysed
    /\ IsFiveRegular
    /\ Len(flags) = 3
    /\ \E i \in 1..Len(flags) :
           IsRoboticFlag(flags[i]) /\ flags[i].message.values.typing_variance = 0

----------------------------------------------------------------------------
(* Properties of session-structured work (SpecWork) *)

Gap(i) == AbsTime(i) - AbsTime(i - 1)

\* the indices that open a session: the first event and every event more
\* than 5 minutes after its predecessor
SessionStarts == {i \in Indices : i = 1 \/ Gap(i) > 300000}

\* the events of the session opened at index s
SessionFrom(s) ==
    {i \in Indices : s <= i /\ \A k \in SessionStarts : k <= s \/ i < k}

\* a clean log: Inserts of 1..100 characters and single-character deletes,
\* a steady 1000 ms apart inside each of exactly 5 sessions, every session
\* holding Inserts and a delete
IsClean ==
    /\ \A i \in Indices : IsInsert(i) \/ IsDelete(i)
    /\ \A i \in Indices : IsInsert(i) => Chars(i) \in 1..100
    /\ \A i \in Indices : IsDelete(i) => Chars(i) = 1
    /\ \A i \in Indices \ SessionStarts : Gap(i) = 1000
    /\ Cardinality(SessionStarts) = 5
    /\ \A s \in SessionStarts :
           /\ \E i \in SessionFrom(s) : IsInsert(i)
           /\ \E i \in SessionFrom(s) : IsDelete(i)

OnlyNoneFlag == Len(flags) = 1 /\ flags[1].severity = "none"

----------------------------------------------------------------------------
(* Properties of the paste-burst count (SpecBurst) *)

Counted == pc \in {"bursts", "bursts_added"}

\* the qualifying Inserts, and those preceded by another one less than
\* 2000 ms earlier
Qualifying == {i \in InsertIndices : Chars(i) > 100}

PreviousQualifying(i) ==
    CHOOSE j \in Qualifying : j < i /\ \A k \in Qualifying : k < i => k <= j

CloseFollowers ==
    {i \in Qualifying :
        /\ \E j \in Qualifying : j < i
        /\ AbsTime(i) - AbsTime(PreviousQualifying(i)) < 2000}

\* C8: paste_burst_detection returns the number of qualifying Inserts that
\* have a previous qualifying Insert less than 2000 ms before them; the
\* first qualifying Insert is never counted, whatever its timestamp.
C8_BurstCount ==
    Counted => metrics.paste_burst_count = Cardinality(CloseFollowers)

\* C9: adding one Insert of more than 100 characters to a time-sorted log,
\* at its chronological position, never lowers the paste_burst_count.
C9_AddedPasteMonotone ==
    [][(Counted /\ pc' = "bursts_added")
           => metrics'.paste_burst_count >= metrics.paste_burst_count]_vars

\* a log starting well after timestamp 2000 to which a paste was added
\* between two others less than 2000 ms apart, counting two bursts
C9_Witness ==
    /\ pc = "bursts_added"
    /\ event_data.base_time = 5000
    /\ Len(event_data.events) = 3
    /\ Qualifying = Indices
    /\ AbsTime(3) - AbsTime(1) = 1999
    /\ AbsTime(2) - AbsTime(1) = 1000
    /\ metrics.paste_burst_count = 2

----------------------------------------------------------------------------
(* Properties of the session score (SpecSessions) *)

\* 1 plus the number of consecutive-event gaps strictly over 5 minutes
SessionCount == 1 + Cardinality({i \in Indices \ {1} : Gap(i) > 300000})

ScoreOfCount(n) ==
    CASE n = 1 -> 0
      [] n = 2 -> 30
      [] n = 3 -> 60
      [] n = 4 -> 80
      [] OTHER -> 100

----------------------------------------------------------------------------
(* Properties of the velocity analysis (SpecVelocity) *)

Measured == pc = "velocity"

\* the Inserts that fall in a window: those strictly before the last
\* event's timestamp, in a log of at least 2 events
WindowedInserts ==
    IF Len(event_data.events) < 2 THEN {}
    ELSE {i \in InsertIndices : AbsTime(i) < AbsTime(Len(event_data.events))}

\* the 30-second windows, numbered from the first event, that hold an Insert
NonEmptyWindows == {(AbsTime(i) - AbsTime(1)) \div 30000 : i \in WindowedInserts}

----------------------------------------------------------------------------
(* Properties of the file entries and the kinds (SpecFiles) *)

\* the path of the i-th event as written and its final segment
PathAt(i) == event_data.events[i].f
Basename(path) == path[Len(path)]

\* the events whose normalised kind is Insert: in a compact record every
\* kind code but 'd' and 's', in a legacy list the type 'insert'
NormalInserts ==
    {i \in Indices :
        IF event_data.format = "compact"
        THEN event_data.events[i].k \notin {"d", "s"}
        ELSE event_data.events[i].k = "insert"}

\* the final segments of the keys of file_risks
EntryNames ==
    {Basename(metrics.file_risks[a].file) : a \in 1..Len(metrics.file_risks)}

\* C12: the keys of file_risks are exactly the files with at least one
\* Insert event (no key twice), every entry has insert_count >= 1 and
\* paste_count <= insert_count, and a file touched by Delete or Save
\* events only has no entry.
C12_FileEntries ==
    Analysed =>
        LET fr == metrics.file_risks
        IN  /\ \A a, b \in 1..Len(fr) : fr[a].file = fr[b].file => a = b
            /\ EntryNames = {Basename(PathAt(i)) : i \in NormalInserts}
            /\ \A a \in 1..Len(fr) :
                   /\ fr[a].insert_count >= 1
                   /\ fr[a].paste_count <= fr[a].insert_count
            /\ \A i \in Indices :
                   (\A j \in NormalInserts : Basename(PathAt(j)) # Basename(PathAt(i)))
                       => Basename(PathAt(i)) \notin EntryNames

\* two files with inserts, one of them with a large paste, and a third
\* file that was only deleted from
C12_Witness ==
    /\ Analysed
    /\ Len(metrics.file_risks) = 2
    /\ \E a \in 1..2 : metrics.file_risks[a].paste_count = 1
    /\ \E i \in Indices :
           /\ IsDelete(i)
           /\ Basename(PathAt(i)) \notin EntryNames

\* C13: in both formats the file names are reduced to their final path
\* segment before grouping: the Insert events whose paths end in the same
\* basename make one entry keyed by that basename.
C13_BasenameKeys ==
    Analysed =>
        \A i \in NormalInserts :
            \E a \in 1..Len(metrics.file_risks) :
                /\ metrics.file_risks[a].file = <<Basename(PathAt(i))>>
                /\ metrics.file_risks[a].insert_count =
                       Cardinality({j \in NormalInserts :
                                       Basename(PathAt(j)) = Basename(PathAt(i))})

\* the compact events with a kind code outside 'i', 'd', 's'
UnknownCodes ==
    {i \in Indices : /\ event_data.format = "compact"
                     /\ event_data.events[i].k \notin {"i", "d", "s"}}

\* the log with every unknown kind code rewritten to 'i'
Recoded ==
    [event_data EXCEPT
        !.events = [i \in 1..Len(@) |->
                       IF i \in UnknownCodes THEN [@[i] EXCEPT !.k = "i"] ELSE @[i]]]

EntryInserts(fr) ==
    SumSeq([a \in 1..Len(fr) |-> fr[a].insert_count])

\* C19: a compact event whose kind code is none of 'i', 'd', 's' is an
\* Insert for every component: it counts in the insert counts, its
\* char_count is added to the inserted characters, it is eligible as a
\* large paste, and the whole result is a result of the log with that code
\* written as 'i'.
C19_UnknownIsInsert ==
    (Analysed /\ UnknownCodes # {}) =>
        /\ EntryInserts(metrics.file_risks) = Cardinality(NormalInserts)
        /\ work_patterns.total_chars_inserted = CharsAt(NormalInserts)
        /\ work_patterns.large_pastes_count =
               Cardinality({i \in NormalInserts : Chars(i) > 100})
        /\ metrics \in extract_metrics(Recoded)
        /\ work_patterns \in analyze_work_patterns(Recoded)
        /\ flags = generate_detailed_flags(metrics, work_patterns)

\* an unknown code next to a known insert and a delete
C19_Witness ==
    /\ Analysed
    /\ UnknownCodes # {}
    /\ \E i \in Indices : event_data.events[i].k = "i"
    /\ \E i \in Indices : event_data.events[i].k = "d"
    /\ work_patterns.large_pastes_count = 1

----------------------------------------------------------------------------
(* Properties of the degenerate logs (Spec) *)

IsSeverity(x) == x \in {"high", "medium", "low", "none"}

\* C15: for an empty log (legacy [] or a compact record with no events)
\* calculate_all_metrics returns a fully defined result: every 0-10 score
\* and overall_score are 0.0, paste_burst_count is 0, average_cpm and
\* max_cpm are 0, file_risks is empty and flags is a list of 1 to 3
\* well-formed flags.
C15_EmptyLog ==
    /\ (pc = "recording" /\ event_data.events = <<>>) => ENABLED Analyze
    /\ (Analysed /\ event_data.events = <<>>) =>
           /\ metrics.incremental_score = 0
           /\ metrics.typing_variance = 0
           /\ metrics.error_correction_ratio = 0
           /\ metrics.session_consistency = 0
           /\ metrics.velocity.score = 0
           /\ metrics.velocity_score = 0
           /\ overall_score = 0
           /\ metrics.paste_burst_count = 0
           /\ metrics.velocity.average_cpm = 0
           /\ metrics.velocity.max_cpm = 0
           /\ metrics.file_risks = <<>>
           /\ Len(flags) \in 1..3
           /\ \A i \in 1..Len(flags) :
                  /\ DOMAIN flags[i] = {"severity", "category", "message"}
                  /\ IsSeverity(flags[i].severity)
                  /\ flags[i].message.form = "rendered"

\* the empty compact record, analysed
C15_Witness ==
    /\ Analysed
    /\ event_data.format = "compact"
    /\ event_data.events = <<>>
    /\ Len(flags) = 3

\* the inserts that carry characters, and the number of strictly positive
\* gaps between consecutive ones
TypedInserts == {i \in InsertIndices : Chars(i) > 0}

PositiveGaps ==
    {<<i, j>> \in TypedInserts \X TypedInserts :
        /\ i < j
        /\ \A k \in TypedInserts : ~(i < k /\ k < j)
        /\ AbsTime(j) - AbsTime(i) > 0}

OneTimestamp == \A i, j \in Indices : AbsTime(i) = AbsTime(j)

----------------------------------------------------------------------------
(* Properties of the analysis of malformed events (SpecMalformed) *)

IsMalformed(i) == DOMAIN event_data.events[i] # {"t", "k", "f", "c"}

\* C14: an event with missing fields or wrong arity makes
\* calculate_all_metrics abort: no result is returned for a log that holds
\* one.
C14_MalformedAborts ==
    (\E i \in Indices : IsMalformed(i)) => ~Analysed

----------------------------------------------------------------------------
(* Properties of the message renderer (SpecRender) *)

Rendered == pc = "rendered"

\* the call has a known key and every argument its template needs
FullCall ==
    /\ metrics.key \in DOMAIN MESSAGES
    /\ MESSAGES[metrics.key].placeholders \subseteq DOMAIN metrics.context

\* the returned string spells the raw key: it shows the key itself, or an
\* unsubstituted template that has a placeholder of that name
EmbedsKey ==
    \/ flags.shows = metrics.key
    \/ /\ flags.form = "fallback"
       /\ metrics.key \in MESSAGES[metrics.key].placeholders

\* the returned string spells every argument value it was given
EmbedsValues == flags.values = metrics.context

\* C17: render returns for every key and every set of named arguments: the
\* fully substituted template for a known key with all its arguments,
\* and for an unknown key or a missing argument a fallback string that
\* embeds both the raw key and the available argument values.
C17_RenderFallback ==
    Rendered =>
        IF FullCall
        THEN /\ flags.form = "rendered"
             /\ flags.shows = MESSAGES[metrics.key].template
             /\ \A a \in MESSAGES[metrics.key].placeholders :
                    flags.values[a] = metrics.context[a]
        ELSE EmbedsKey /\ EmbedsValues

----------------------------------------------------------------------------
(* Properties of the components evaluated in any order (SpecParallel) *)

\* the result is one calculate_all_metrics returns for the log
IsResultOf(ed) ==
    /\ metrics \in extract_metrics(ed)
    /\ work_patterns \in analyze_work_patterns(ed)
    /\ overall_score \in calculate_overall_score(metrics)
    /\ flags = generate_detailed_flags(metrics, work_patterns)

\* every component result collected so far is one its call returns for
\* the log, whatever was evaluated before it
CollectedOf(ed) ==
    \A name \in DOMAIN metrics : metrics[name] \in Component(name, ed)

----------------------------------------------------------------------------
(* Properties of the overall score as a computation in steps               *)
(* (SpecAggregate)                                                         *)

\* the reference computation on the metrics of the state, step by step, in
\* units of 1/100000 point: weighted sum, cap at 3.0, cap at 1.0, burst
\* penalty, single-session penalty, clamp at 0
RefWeighted ==
    1000 * (25 * metrics.incremental_score + 20 * metrics.typing_variance
            + 20 * metrics.error_correction_ratio
            + 20 * metrics.session_consistency + 15 * metrics.velocity.score)

RefLowCap ==
    IF \/ metrics.incremental_score <= 20
       \/ metrics.typing_variance <= 20
       \/ metrics.velocity.score <= 20
    THEN Min(RefWeighted, 3000000) ELSE RefWeighted

RefSpeedCap ==
    IF metrics.velocity.average_cpm > 5000 THEN Min(RefLowCap, 1000000) ELSE RefLowCap

RefBursts ==
    IF metrics.paste_burst_count > 5 THEN (RefSpeedCap * 3) \div 10
    ELSE IF metrics.paste_burst_count > 2 THEN (RefSpeedCap * 6) \div 10
    ELSE RefSpeedCap

RefSessions ==
    IF metrics.session_consistency <= 10 THEN (RefBursts * 7) \div 10 ELSE RefBursts

RefClamped == Max(RefSessions, 0)

\* C20: calculate_overall_score is the reference computation in this
\* order: weighted sum (0.25, 0.20, 0.20, 0.20, 0.15), min with 3.0 if a
\* component is <= 2, min with 1.0 if average_cpm > 500, times 0.3 if
\* paste_burst_count > 5 else times 0.6 if > 2, times 0.7 if
\* session_consistency <= 1, clamp at 0, round to one decimal; the
\* penalties multiply the capped value and compound.
C20_ReferenceOrder ==
    Scored => overall_score \in RoundEither(RefClamped, 100000)

\* a weighted sum over 1.0 capped at 1.0 for its speed, then both
\* penalties: 1.0 * 0.3 * 0.7 = 0.21, returned as 0.2
C20_Witness ==
    /\ Scored
    /\ RefLowCap > 1000000
    /\ metrics.velocity.average_cpm > 5000
    /\ metrics.paste_burst_count > 5
    /\ metrics.session_consistency <= 10
    /\ overall_score = 2

----------------------------------------------------------------------------
(* Properties of the selection of the flags (SpecAggregate) *)

\* the candidate table: category, priority, and the condition read off the
\* metrics and work patterns of the state, in the listed order
CandidateTable ==
    <<[category |-> "Code Origin", priority |-> 10, holds |-> CodeOriginCond],
      [category |-> "Time Analysis", priority |-> 10, holds |-> TimeAnalysisCond],
      [category |-> "Typing Speed", priority |-> 10, holds |-> TypingSpeedCond],
      [category |-> "File Analysis", priority |-> 9, holds |-> FileAnalysisCond],
      [category |-> "Development Pattern", priority |-> 5, holds |-> DevelopmentCond],
      [category |-> "Typing Behavior", priority |-> 5, holds |-> TypingBehaviorCond],
      [category |-> "Error Correction", priority |-> 5, holds |-> ErrorCorrectionCond],
      [category |-> "Work Sessions", priority |-> 5, holds |-> WorkSessionsCond]>>

\* the rows whose condition holds, and the row of a returned flag
HeldRows == {r \in 1..Len(CandidateTable) : CandidateTable[r].holds}
RowOf(flag) ==
    CHOOSE r \in 1..Len(CandidateTable) : CandidateTable[r].category = flag.category

\* C21: the returned flags are the first three candidates of the list
\* sorted stably by priority descending: every returned flag is a
\* candidate, no omitted candidate has a higher priority than a returned
\* one, and candidates of equal priority keep the order of the table.
C21_TopThreeStable ==
    (Analysed /\ AnyCandidate) =>
        LET returned == {RowOf(flags[i]) : i \in 1..Len(flags)}
        IN  /\ \A i \in 1..Len(flags) :
                   \E r \in HeldRows : CandidateTable[r].category = flags[i].category
            /\ Len(flags) = Min(3, Cardinality(HeldRows))
            /\ \A i, j \in 1..Len(flags) :
                   i < j =>
                       /\ CandidateTable[RowOf(flags[i])].priority
                              >= CandidateTable[RowOf(flags[j])].priority
                       /\ RowOf(flags[i]) < RowOf(flags[j])
            /\ \A o \in HeldRows \ returned : \A r \in returned :
                   /\ CandidateTable[o].priority <= CandidateTable[r].priority
                   /\ CandidateTable[o].priority = CandidateTable[r].priority => r < o

\* five candidates: Typing Speed, File Analysis and Development Pattern are
\* returned in that order, Typing Behavior and Work Sessions are omitted
C21_Witness ==
    /\ Analysed
    /\ Len(flags) = 3
    /\ flags[1].category = "Typing Speed"
    /\ flags[2].category = "File Analysis"
    /\ flags[3].category = "Development Pattern"
    /\ TypingBehaviorCond
    /\ WorkSessionsCond

----------------------------------------------------------------------------
(* Properties of the velocity score (SpecVelocity) *)

\* score (tenths) is the piecewise mapping of average_cpm (tenths) rounded
\* to one decimal: within half a tenth of the exact value
IsMappedScore(v) ==
    IF v.average_cpm <= 800 THEN v.score = 100
    ELSE IF v.average_cpm <= 1500
    THEN /\ 2 * (14 * v.score - (1400 - (v.average_cpm - 800))) <= 14
         /\ 2 * ((1400 - (v.average_cpm - 800)) - 14 * v.score) <= 14
    ELSE IF v.average_cpm <= 2000
    THEN /\ 2 * (25 * v.score - (1250 - 2 * (v.average_cpm - 1500))) <= 25
         /\ 2 * ((1250 - 2 * (v.average_cpm - 1500)) - 25 * v.score) <= 25
    ELSE v.score = 0

\* the log goes through the windows: at least 2 events and an Insert
HasWindows == Len(event_data.events) >= 2 /\ InsertIndices # {}

----------------------------------------------------------------------------
(* Properties of the file risk rules (SpecRisk) *)

\* the Insert and Delete events of a file, read off the log
InsertsOf(f) == {i \in InsertIndices : PathAt(i) = f}
DeletesOf(f) == {i \in Indices : IsDelete(i) /\ PathAt(i) = f}
PastesOf(f) == {i \in InsertsOf(f) : Chars(i) > 100}
EventsOf(f) == {i \in Indices : PathAt(i) = f}

First(S) == CHOOSE i \in S : \A j \in S : i <= j
Latest(S) == CHOOSE i \in S : \A j \in S : j <= i

Level(risk) == IF risk = "high" THEN 3 ELSE IF risk = "medium" THEN 2 ELSE 1

\* rule 1: paste_ratio > 0.5 -> high, else > 0.3 -> medium, else low
PasteRule(f) ==
    IF 2 * Cardinality(PastesOf(f)) > Cardinality(InsertsOf(f)) THEN "high"
    ELSE IF 10 * Cardinality(PastesOf(f)) > 3 * Cardinality(InsertsOf(f)) THEN "medium"
    ELSE "low"

\* rule 2: edit_ratio < 0.05 and insert_count > 10 escalates one level
FewEdits(f) ==
    /\ 20 * Cardinality(DeletesOf(f)) < Cardinality(InsertsOf(f))
    /\ Cardinality(InsertsOf(f)) > 10

EditRule(f) ==
    IF ~FewEdits(f) THEN PasteRule(f)
    ELSE IF PasteRule(f) = "low" THEN "medium" ELSE "high"

\* rule 3: last insert minus first insert under 2 minutes and more than 200
\* inserted characters forces high
QuickFile(f) ==
    /\ AbsTime(Latest(InsertsOf(f))) - AbsTime(First(InsertsOf(f))) < 120000
    /\ CharsAt(InsertsOf(f)) > 200

QuickRule(f) == IF QuickFile(f) THEN "high" ELSE EditRule(f)

\* C23: every file with an Insert gets the risk of the three rules applied
\* in order; no later rule lowers the risk of an earlier one, so the risk
\* is high whenever paste_ratio > 0.5 or the quick-file rule holds.
C23_RiskRules ==
    Analysed =>
        \A a \in 1..Len(metrics.file_risks) :
            LET f == metrics.file_risks[a].file
            IN  /\ metrics.file_risks[a].risk = QuickRule(f)
                /\ Level(PasteRule(f)) <= Level(EditRule(f))
                /\ Level(EditRule(f)) <= Level(metrics.file_risks[a].risk)
                /\ (2 * Cardinality(PastesOf(f)) > Cardinality(InsertsOf(f))
                        \/ QuickFile(f))
                       => metrics.file_risks[a].risk = "high"

\* 22 inserts over more than 2 minutes, half of them large pastes, and no
\* delete: medium by the paste ratio, escalated to high by the edit ratio
C23_Witness ==
    /\ Analysed
    /\ \E a \in 1..Len(metrics.file_risks) :
           LET f == metrics.file_risks[a].file
           IN  /\ PasteRule(f) = "medium"
               /\ FewEdits(f)
               /\ ~QuickFile(f)
               /\ metrics.file_risks[a].risk = "high"

\* C28: an entry of file_risks has risk low exactly when its issues list is
\* empty; hence the File Analysis flag, built for the first high-risk file
\* in order of first appearance, never has an empty issue list.
C28_LowIffNoIssues ==
    Analysed =>
        /\ \A a \in 1..Len(metrics.file_risks) :
               metrics.file_risks[a].risk = "low" <=> metrics.file_risks[a].issues = <<>>
        /\ \A i \in 1..Len(flags) :
               flags[i].category = "File Analysis" =>
                   \E a \in 1..Len(metrics.file_risks) :
                       /\ metrics.file_risks[a].risk = "high"
                       /\ \A b \in 1..(a - 1) : metrics.file_risks[b].risk # "high"
                       /\ \A b \in 1..(a - 1) :
                              First(EventsOf(metrics.file_risks[b].file))
                                  < First(EventsOf(metrics.file_risks[a].file))
                       /\ flags[i].message.values.file = metrics.file_risks[a].file
                       /\ flags[i].message.values.issues = metrics.file_risks[a].issues
                       /\ flags[i].message.values.issues # <<>>

\* two files: the first is low without issues, the second is high and is
\* the one the File Analysis flag reports
C28_Witness ==
    /\ Analysed
    /\ Len(metrics.file_risks) = 2
    /\ metrics.file_risks[1].risk = "low"
    /\ metrics.file_risks[1].issues = <<>>
    /\ metrics.file_risks[2].risk = "high"
    /\ \E i \in 1..Len(flags) :
           /\ flags[i].category = "File Analysis"
           /\ flags[i].message.values.file = metrics.file_risks[2].file

----------------------------------------------------------------------------
(* Properties of the velocity windows (SpecVelocity) *)

\* the windows that hold the i-th event
WindowsOf(i) ==
    {w \in 1..Len(metrics.windows) :
        /\ metrics.windows[w].offset <= AbsTime(i) - AbsTime(1)
        /\ AbsTime(i) - AbsTime(1) < metrics.windows[w].offset + 30000}

\* C27: for every time-sorted log with at least 2 events, each Insert
\* falls in exactly one 30-second window, so the per-window character
\* totals add up to the total inserted characters of the log.
C27_EveryInsertWindowed ==
    (Measured /\ Len(event_data.events) >= 2) =>
        /\ \A i \in InsertIndices : Cardinality(WindowsOf(i)) = 1
        /\ SumSeq([w \in 1..Len(metrics.windows) |-> metrics.windows[w].chars])
               = TotalInserted

----------------------------------------------------------------------------
(* The server.  submit_assignment (app.py) stores a student's event log    *)
(* and queues analyze_submission (worker.py); RQ workers, separate         *)
(* processes, run the queued calls.  One student of one assignment is      *)
(* followed, so the submissions table holds at most one row (its unique    *)
(* constraint), with id SubmissionId.  An event log is kept as its         *)
(* version, the number of the request that submitted it; a computed value  *)
(* is kept as what it is, the version of the log it was computed from and  *)
(* the job that computed it.  A request, and each statement of a job that  *)
(* reaches the database, is one step, and the steps of the workers         *)
(* interleave freely.                                                      *)

MaxSubmissions == 2
SubmissionId == 1

Computed(key, v, j) == [of |-> key, events |-> v, job |-> j]

\* calculate_all_metrics(events) as job j computes it from version v
engine_result(v, j) ==
    [incremental_score |-> Computed("incremental_score", v, j),
     typing_variance |-> Computed("typing_variance", v, j),
     error_correction_ratio |-> Computed("error_correction_ratio", v, j),
     paste_burst_count |-> Computed("paste_burst_count", v, j),
     session_consistency |-> Computed("session_consistency", v, j),
     velocity |-> [average_cpm |-> Computed("average_cpm", v, j),
                   max_cpm |-> Computed("max_cpm", v, j),
                   score |-> Computed("velocity_score", v, j)],
     velocity_score |-> Computed("velocity_score", v, j),
     file_risks |-> Computed("file_risks", v, j),
     work_patterns |-> Computed("work_patterns", v, j),
     overall_score |-> Computed("overall_score", v, j),
     flags |-> Computed("flags", v, j)]

\* the scalar entries of the engine result
ScalarKeys ==
    {"incremental_score", "typing_variance", "error_correction_ratio",
     "paste_burst_count", "session_consistency", "velocity_score",
     "overall_score"}

\* the steps of a run that can raise
RaisingSteps ==
    {"decrypt_data", "calculate_all_metrics", "create_timeline",
     "create_activity_heatmap", "create_velocity_chart",
     "create_activity_overview", "create_file_risk_table"}
ExportStep == "export_for_llm_analysis"

\* the columns of analysis_results
Columns ==
    {"id", "submission_id", "incremental_score", "typing_variance",
     "error_correction_ratio", "paste_burst_count", "session_consistency",
     "velocity_avg", "velocity_max", "flags", "timeline_html",
     "llm_export_json", "llm_export_prompt", "created_at"}

\* the keyword arguments of AnalysisResult(...) on the create path
CreatedFields ==
    {"submission_id", "incremental_score", "typing_variance",
     "error_correction_ratio", "paste_burst_count", "session_consistency",
     "velocity_avg", "velocity_max", "flags", "timeline_html",
     "llm_export_json", "llm_export_prompt"}

\* the attributes an update path written before the later columns assigns
UpdatedFields_early ==
    {"incremental_score", "typing_variance", "error_correction_ratio",
     "paste_burst_count", "flags", "timeline_html"}

\* the attributes assigned on the update path
UpdatedFields ==
    {"incremental_score", "typing_variance", "error_correction_ratio",
     "paste_burst_count", "session_consistency", "velocity_avg",
     "velocity_max", "flags", "timeline_html", "llm_export_json",
     "llm_export_prompt"}

\* the value a job writes to a column
Stored(job, column) ==
    CASE column = "incremental_score" -> job.result.incremental_score
      [] column = "typing_variance" -> job.result.typing_variance
      [] column = "error_correction_ratio" -> job.result.error_correction_ratio
      [] column = "paste_burst_count" -> job.result.paste_burst_count
      [] column = "session_consistency" -> job.result.session_consistency
      [] column = "velocity_avg" -> job.result.velocity.average_cpm
      [] column = "velocity_max" -> job.result.velocity.max_cpm
      [] column = "flags" -> job.result.flags
      [] column = "timeline_html" -> job.combined_html
      [] column = "llm_export_json" -> job.llm_json
      [] column = "llm_export_prompt" -> job.llm_prompt

\* AnalysisResult(...) followed by db.session.add: the primary key comes
\* from the table's sequence, created_at from its default (kept as the
\* number of the inserting job)
NewRow(job, id, j) ==
    [c \in Columns |->
        IF c = "id" THEN id
        ELSE IF c = "submission_id" THEN SubmissionId
        ELSE IF c = "created_at" THEN j
        ELSE Stored(job, c)]

\* the assignments to the loaded row on the update path
UpdatedRow(row, job) ==
    [c \in Columns |-> IF c \in UpdatedFields THEN Stored(job, c) ELSE row[c]]

\* AnalysisResult.query.filter_by(submission_id=submission_id)
ResultsOf(db, submission_id) ==
    {row \in db.results : row.submission_id = submission_id}

InitStore ==
    /\ event_data = [format |-> "compact", base_time |-> 0, events |-> <<>>]
    /\ metrics = << >>
    /\ work_patterns = << >>
    /\ overall_score = 0
    /\ flags = << >>
    /\ pc = "serving"
    /\ NoStorage

\* POST /api/submit with a valid code before the deadline: the first
\* request creates the submission, a later one replaces its events and
\* deletes its analysis results; then the analysis is queued
submit_assignment ==
    /\ pc = "serving"
    /\ database.submission < MaxSubmissions
    /\ database' =
           IF database.submission > 0
           THEN [database EXCEPT
                    !.submission = database.submission + 1,
                    !.results = database.results
                                    \ ResultsOf(database, SubmissionId)]
           ELSE [database EXCEPT !.submission = 1]
    /\ task_queue' = Append(task_queue, SubmissionId)
    /\ UNCHANGED jobs
    /\ UNCHANGED engine

\* a worker takes the oldest queued call and loads the submission
StartJob ==
    /\ pc = "serving"
    /\ task_queue # <<>>
    /\ task_queue' = Tail(task_queue)
    /\ jobs' = Append(jobs,
           [pc |-> IF database.submission = 0 THEN "returned" ELSE "loaded",
            submission_id |-> Head(task_queue),
            events |-> database.submission,
            failed |-> {},
            result |-> << >>,
            combined_html |-> << >>,
            llm_json |-> << >>,
            llm_prompt |-> << >>,
            analysis |-> 0])
    /\ UNCHANGED database
    /\ UNCHANGED engine

\* decryption, metrics and visualizations succeed; the LLM export succeeds
\* or raises, and what it raises is caught
Calculate(j) ==
    /\ pc = "serving"
    /\ jobs[j].pc = "loaded"
    /\ \E exported \in BOOLEAN :
           LET v == jobs[j].events
           IN jobs' = [jobs EXCEPT
                  ![j].pc = "calculated",
                  ![j].result = engine_result(v, j),
                  ![j].combined_html = Computed("combined_html", v, j),
                  ![j].llm_json = IF exported
                                  THEN Computed("llm_json", v, j)
                                  ELSE Computed("{}", v, j),
                  ![j].llm_prompt = IF exported
                                    THEN Computed("llm_prompt", v, j)
                                    ELSE Computed("", v, j),
                  ![j].failed = IF exported THEN {} ELSE {ExportStep}]
    /\ UNCHANGED <<database, task_queue>>
    /\ UNCHANGED engine

\* decryption, the metrics or a visualization raises: the call ends
CalculateRaises(j) ==
    /\ pc = "serving"
    /\ jobs[j].pc = "loaded"
    /\ \E step \in RaisingSteps :
           jobs' = [jobs EXCEPT ![j].pc = "raised", ![j].failed = {step}]
    /\ UNCHANGED <<database, task_queue>>
    /\ UNCHANGED engine

\* AnalysisResult.query.filter_by(submission_id=submission_id).first():
\* no ORDER BY, any of the submission's rows
QueryAnalysis(j) ==
    /\ pc = "serving"
    /\ jobs[j].pc = "calculated"
    /\ LET found == ResultsOf(database, jobs[j].submission_id)
       IN IF found = {}
          THEN jobs' = [jobs EXCEPT ![j].pc = "queried", ![j].analysis = 0]
          ELSE \E row \in found :
                   jobs' = [jobs EXCEPT ![j].pc = "queried",
                                        ![j].analysis = row.id]
    /\ UNCHANGED <<database, task_queue>>
    /\ UNCHANGED engine

\* the update or create branch and db.session.commit(); the UPDATE of a row
\* deleted since it was loaded matches nothing and the flush raises
Commit(j) ==
    /\ pc = "serving"
    /\ jobs[j].pc = "queried"
    /\ LET job == jobs[j]
           loaded == {row \in database.results : row.id = job.analysis}
       IN IF job.analysis = 0
          THEN /\ database' = [database EXCEPT
                      !.results = database.results
                                      \cup {NewRow(job, database.next_id, j)},
                      !.next_id = database.next_id + 1]
               /\ jobs' = [jobs EXCEPT ![j].pc = "committed"]
          ELSE IF loaded # {}
          THEN /\ database' = [database EXCEPT
                      !.results = (database.results \ loaded)
                          \cup {UpdatedRow(row, job) : row \in loaded}]
               /\ jobs' = [jobs EXCEPT ![j].pc = "committed"]
          ELSE /\ jobs' = [jobs EXCEPT
                      ![j].pc = "raised",
                      ![j].failed = job.failed \cup {"commit"}]
               /\ UNCHANGED database
    /\ UNCHANGED task_queue
    /\ UNCHANGED engine

\* analyze_submission is StartJob and then the steps of the started call
NextStore ==
    \/ submit_assignment
    \/ StartJob
    \/ \E j \in 1..Len(jobs) : Calculate(j)
    \/ \E j \in 1..Len(jobs) : CalculateRaises(j)
    \/ \E j \in 1..Len(jobs) : QueryAnalysis(j)
    \/ \E j \in 1..Len(jobs) : Commit(j)

SpecStore == InitStore /\ [][NextStore]_vars

\* GET /api/assignments/<id>/submissions: the overall_score entry of the
\* submission, None without an analysis; reading an attribute the row
\* does not have raises
get_submissions(db) ==
    LET found == ResultsOf(db, SubmissionId)
    IN IF found = {}
       THEN {[raised |-> FALSE, overall_score |-> Computed("None", 0, 0)]}
       ELSE {IF "overall_score" \in DOMAIN row
             THEN [raised |-> FALSE, overall_score |-> row["overall_score"]]
             ELSE [raised |-> TRUE, overall_score |-> Computed("None", 0, 0)]
             : row \in found}

----------------------------------------------------------------------------
(* Properties of the server (SpecStore) *)

\* the columns of a row that hold what a run computed
ComputedFields == CreatedFields \ {"submission_id"}

\* job j has just committed the update of the row it loaded
UpdateCommitted(j) ==
    /\ jobs[j].pc = "queried"
    /\ jobs[j].analysis # 0
    /\ jobs'[j].pc = "committed"

\* C24: a run that finds a stored AnalysisResult assigns the same columns
\* the create path fills, and after its commit every one of them holds the
\* value this run computed; a stored row never mixes the values of two runs.
C24_FullOverwrite ==
    /\ [](UpdatedFields = ComputedFields)
    /\ [][\A j \in 1..Len(jobs) :
              UpdateCommitted(j) =>
                  \E row \in database'.results :
                      /\ row.id = jobs[j].analysis
                      /\ \A f \in ComputedFields : row[f] = Stored(jobs[j], f)]_vars
    /\ [](\A row \in database.results :
              \E j \in 1..Len(jobs) :
                  /\ jobs[j].pc = "committed"
                  /\ \A f \in ComputedFields : row[f] = Stored(jobs[j], f))

\* a stored row created by one run and since overwritten by another
C24_Witness ==
    \E row \in database.results :
        \E j \in 1..Len(jobs) :
            /\ jobs[j].pc = "committed"
            /\ jobs[j].analysis = row.id
            /\ row.created_at # j
            /\ \A f \in ComputedFields : row[f] = Stored(jobs[j], f)

\* C25: a stored AnalysisResult never contains a field produced by a run in
\* which some step failed.
C25_AllOrNothing ==
    \A row \in database.results :
        \A f \in ComputedFields : jobs[row[f].job].failed = {}

\* C26: the stored AnalysisResult holds the overall_score of the engine
\* result, and get_submissions returns it.
C26_OverallScoreStored ==
    /\ \A row \in database.results :
           \E j \in 1..Len(jobs) :
               /\ jobs[j].pc = "committed"
               /\ \A key \in ScalarKeys :
                      \E column \in ComputedFields :
                          row[column] = jobs[j].result[key]
    /\ \A response \in get_submissions(database) : ~response.raised

\* C29: at most one AnalysisResult row exists for the submission.
C29_OneRowPerSubmission ==
    Cardinality(ResultsOf(database, SubmissionId)) <= 1

\* every queued call has been started and has run to its end
AllJobsFinished ==
    /\ task_queue = <<>>
    /\ \A j \in 1..Len(jobs) : jobs[j].pc = "committed"

\* C30: once a student has resubmitted and every queued job has finished,
\* what is stored for the submission was computed from the events submitted
\* last.
C30_NewestEventsWin ==
    (database.submission > 1 /\ AllJobsFinished) =>
        \A row \in ResultsOf(database, SubmissionId) :
            \A f \in ComputedFields : row[f].events = database.submission

====
